---- MODULE Spec2Model ----
(***************************************************************************)
(* niagara-moduledev: resolution of module resource identifiers            *)
(* (/module/ URLs, module:// ORDs, nmodule/ RequireJS ids) to file paths,  *)
(* first in the registered dev directories, then in the jars under         *)
(* niagara_home/modules, with a per-Resolver path cache and a process-wide *)
(* temp directory.                                                         *)
(*                                                                         *)
(* Strings are sequences of tokens.  The separator "/", the colon ":" and  *)
(* a file extension (".js", ".hbs") are tokens of their own, so that the   *)
(* prefix regexes, indexOf('/'), the Test$ and \.\w+$ regexes and string   *)
(* concatenation are computed on the text as the code computes them.       *)
(***************************************************************************)
EXTENDS Integers, Sequences, FiniteSets, TLC

(***************************************************************************)
(* Text helpers                                                            *)
(***************************************************************************)
SLASH == "/"

ExtTokens == {".js", ".hbs"}

StartsWith(s, p) == Len(s) >= Len(p) /\ SubSeq(s, 1, Len(p)) = p

EndsWith(s, p) == Len(s) >= Len(p) /\ SubSeq(s, Len(s) - Len(p) + 1, Len(s)) = p

DropFirst(s, n) == SubSeq(s, n + 1, Len(s))

DropLast(s, n) == SubSeq(s, 1, Len(s) - n)

\* String.prototype.indexOf for a one-token needle, zero-based, -1 when absent
IndexOf(s, tok) ==
  IF \E i \in 1..Len(s) : s[i] = tok
  THEN (CHOOSE i \in 1..Len(s) : s[i] = tok /\ \A j \in 1..(i - 1) : s[j] # tok) - 1
  ELSE -1

\* s contains p as a contiguous piece
Contains(s, p) == \E i \in 0..(Len(s) - Len(p)) : SubSeq(s, i + 1, i + Len(p)) = p

\* path.normalize, as far as the paths of the model need it: runs of
\* separators collapse to one, the empty path is "."
RECURSIVE Collapse(_)
Collapse(s) ==
  IF Len(s) <= 1 THEN s
  ELSE IF s[1] = SLASH /\ s[2] = SLASH THEN Collapse(Tail(s))
  ELSE <<s[1]>> \o Collapse(Tail(s))

PathNormalize(s) == IF s = <<>> THEN <<".">> ELSE Collapse(s)

\* path.join: the non-empty segments, separated by "/", normalized
RECURSIVE JoinSegs(_)
JoinSegs(segs) ==
  IF segs = <<>> THEN <<>>
  ELSE LET rest == JoinSegs(Tail(segs))
       IN  IF Head(segs) = <<>> THEN rest
           ELSE IF rest = <<>> THEN Head(segs)
           ELSE Head(segs) \o <<SLASH>> \o rest

PathJoin(segs) == PathNormalize(JoinSegs(segs))

\* Array.prototype.join() of a list of strings
RECURSIVE ArrJoin(_)
ArrJoin(arr) ==
  IF arr = <<>> THEN <<>>
  ELSE IF Len(arr) = 1 THEN arr[1]
  ELSE arr[1] \o <<",">> \o ArrJoin(Tail(arr))

(***************************************************************************)
(* lib/util/file.js                                                        *)
(***************************************************************************)
\* normalized(filePath): path.normalize, then one trailing separator removed
normalized(filePath) ==
  LET n == PathNormalize(filePath)
  IN  IF n # <<>> /\ n[Len(n)] = SLASH THEN DropLast(n, 1) ELSE n

(***************************************************************************)
(* The identifier parser                                                   *)
(***************************************************************************)
MODULE_URL_REGEX == <<"/", "module", "/">>

MODULE_ORD_REGEX == <<"module", ":", "/", "/">>

NMODULE_REGEX == <<"nmodule", "/">>

TEST_REGEX == <<"Test">>

RUNTIME_PROFILES_Reversed == << <<>>, <<"-se">>, <<"-wb">>, <<"-rt">>, <<"-ux">> >>

RUNTIME_PROFILES == << <<"-ux">>, <<"-rt">>, <<"-wb">>, <<"-se">>, <<>> >>

NoPath == [kind |-> "undefined"]

\* a url no prefix matches is returned as it is
getModulePath_UrlReturned(url) ==
  IF StartsWith(url, MODULE_URL_REGEX)
  THEN [kind |-> "string", s |-> DropFirst(url, Len(MODULE_URL_REGEX))]
  ELSE IF StartsWith(url, MODULE_ORD_REGEX)
  THEN [kind |-> "string", s |-> DropFirst(url, Len(MODULE_ORD_REGEX))]
  ELSE IF StartsWith(url, NMODULE_REGEX)
  THEN [kind |-> "string", s |-> DropFirst(url, Len(NMODULE_REGEX)) \o <<".js">>]
  ELSE [kind |-> "string", s |-> url]

\* .js appended to an nmodule remainder only when it has no extension
getModulePath_AppendIfMissing(url) ==
  IF StartsWith(url, MODULE_URL_REGEX)
  THEN [kind |-> "string", s |-> DropFirst(url, Len(MODULE_URL_REGEX))]
  ELSE IF StartsWith(url, MODULE_ORD_REGEX)
  THEN [kind |-> "string", s |-> DropFirst(url, Len(MODULE_ORD_REGEX))]
  ELSE IF StartsWith(url, NMODULE_REGEX)
  THEN LET rem == DropFirst(url, Len(NMODULE_REGEX))
       IN  [kind |-> "string",
            s |-> IF rem # <<>> /\ rem[Len(rem)] \in ExtTokens
                  THEN rem ELSE rem \o <<".js">>]
  ELSE NoPath

\* getModulePath(url): the url without its prefix, or undefined
getModulePath(url) ==
  IF StartsWith(url, MODULE_URL_REGEX)
  THEN [kind |-> "string", s |-> DropFirst(url, Len(MODULE_URL_REGEX))]
  ELSE IF StartsWith(url, MODULE_ORD_REGEX)
  THEN [kind |-> "string", s |-> DropFirst(url, Len(MODULE_ORD_REGEX))]
  ELSE IF StartsWith(url, NMODULE_REGEX)
  THEN [kind |-> "string", s |-> DropFirst(url, Len(NMODULE_REGEX)) \o <<".js">>]
  ELSE NoPath

\* the typeof test left out: indexOf on undefined raises
getModuleFileInfoOf_NoTypeTest(mp) ==
  IF mp.kind # "string"
  THEN [kind |-> "throw", msg |-> <<"Cannot read property 'indexOf' of undefined">>]
  ELSE LET index == IndexOf(mp.s, SLASH)
       IN  IF index <= 0
           THEN [kind |-> "throw",
                 msg |-> <<"could not determine module name: ">> \o mp.s]
           ELSE [kind |-> "info",
                 fullPath |-> mp.s,
                 name |-> SubSeq(mp.s, 1, index),
                 path |-> DropFirst(mp.s, index + 1)]

\* index < 0 tested instead of index <= 0: an empty module name passes
getModuleFileInfoOf_EmptyNamePasses(mp) ==
  IF mp.kind # "string" THEN [kind |-> "empty"]
  ELSE LET index == IndexOf(mp.s, SLASH)
       IN  IF index < 0
           THEN [kind |-> "throw",
                 msg |-> <<"could not determine module name: ">> \o mp.s]
           ELSE [kind |-> "info",
                 fullPath |-> mp.s,
                 name |-> SubSeq(mp.s, 1, index),
                 path |-> DropFirst(mp.s, index + 1)]

\* getModuleFileInfo(modulePath): {} for a non-string, a thrown string when
\* the first separator is missing or at position 0, else the three fields
getModuleFileInfoOf(mp) ==
  IF mp.kind # "string" THEN [kind |-> "empty"]
  ELSE LET index == IndexOf(mp.s, SLASH)
       IN  IF index <= 0
           THEN [kind |-> "throw",
                 msg |-> <<"could not determine module name: ">> \o mp.s]
           ELSE [kind |-> "info",
                 fullPath |-> mp.s,
                 name |-> SubSeq(mp.s, 1, index),
                 path |-> DropFirst(mp.s, index + 1)]

getModuleFileInfo(url) == getModuleFileInfoOf(getModulePath(url))

getModuleName_Unstripped(modInfo) == modInfo.name

getModuleName(modInfo) ==
  IF EndsWith(modInfo.name, TEST_REGEX)
  THEN DropLast(modInfo.name, Len(TEST_REGEX))
  ELSE modInfo.name

getSrcFolder(modInfo) ==
  IF EndsWith(modInfo.name, TEST_REGEX) THEN <<"srcTest">> ELSE <<"src">>

\* filePath.replace(/\.\w+$/, '')
stripExtension(filePath) ==
  IF filePath # <<>> /\ filePath[Len(filePath)] \in ExtTokens
  THEN DropLast(filePath, 1)
  ELSE filePath

\* the path as requested tried before the path without its .js
resolveModulePath_RequestedFirst(modulePath) ==
  IF EndsWith(modulePath, <<".js">>)
  THEN <<modulePath, stripExtension(modulePath)>>
  ELSE <<modulePath>>

\* the forms resolveModulePath hands to doResolve, in the order it tries them
resolveModulePath(modulePath) ==
  IF EndsWith(modulePath, <<".js">>)
  THEN <<stripExtension(modulePath), modulePath>>
  ELSE <<modulePath>>

(***************************************************************************)
(* State                                                                   *)
(***************************************************************************)
VARIABLES
  reg,            \* per Resolver: the registry, module name -> source directory
  niagaraHome,    \* per Resolver: the install root, or "undefined"
  made,           \* per Resolver: the factory call that made it and its outcome
  devFiles,       \* the readable files below the source directories
  jars,           \* the readable jars: jar path -> its entries, in zip order
  filePathCache,  \* per Resolver: fullPath -> resolved temp path
  tmpDir,         \* the process-wide temp directory, <<>> until created
  mkdirCalls,     \* how many times temp.mkdir has been called
  tmpFiles,       \* the files below tmpDir: path -> bytes
  calls,          \* per slot: the getFilePath / getRequireJsPaths call in it
  done,           \* archive resolutions completed so far: <<r, url, path>>
  limit           \* how many calls the caller keeps in flight at once

world == <<reg, niagaraHome, made, devFiles, jars>>

vars == <<reg, niagaraHome, made, devFiles, jars, filePathCache, tmpDir, mkdirCalls,
          tmpFiles, calls, done, limit>>

Ev(e, i, p) == [ev |-> e, i |-> i, p |-> p]

(***************************************************************************)
(* lib/Resolver.js: the dev-directory attempt                              *)
(***************************************************************************)
verifyFileIsReadable(filePath) == filePath \in devFiles

DevFilePath(dir, moduleName, srcFolder, modulePath, i) ==
  PathJoin(<<dir, moduleName \o RUNTIME_PROFILES[i], srcFolder, modulePath>>)

\* doResolve(modulePath) of modulePathToModuleDev: fromProfile(i), the probes
\* it makes and the first readable path
RECURSIVE DevFromProfile(_, _, _, _, _, _)
DevFromProfile(dir, moduleName, srcFolder, modulePath, i, el) ==
  IF i > Len(RUNTIME_PROFILES) THEN [ok |-> FALSE, path |-> <<>>, prof |-> 0, log |-> <<>>]
  ELSE LET filePath == DevFilePath(dir, moduleName, srcFolder, modulePath, i)
           probe == <<Ev("probe", el, filePath)>>
       IN  IF verifyFileIsReadable(filePath)
           THEN [ok |-> TRUE, path |-> filePath, prof |-> i, log |-> probe]
           ELSE LET rest == DevFromProfile(dir, moduleName, srcFolder, modulePath, i + 1, el)
                IN  [rest EXCEPT !.log = probe \o @]

\* resolveModulePath(modulePath, doResolve) over the dev directories
RECURSIVE DevForms(_, _, _, _, _, _)
DevForms(dir, moduleName, srcFolder, forms, k, el) ==
  IF k > Len(forms) THEN [ok |-> FALSE, path |-> <<>>, prof |-> 0, form |-> 0, log |-> <<>>]
  ELSE LET r1 == DevFromProfile(dir, moduleName, srcFolder, forms[k], 1, el)
       IN  IF r1.ok
           THEN [ok |-> TRUE, path |-> r1.path, prof |-> r1.prof, form |-> k, log |-> r1.log]
           ELSE LET rest == DevForms(dir, moduleName, srcFolder, forms, k + 1, el)
                IN  [rest EXCEPT !.log = r1.log \o @]

\* the registry entry used without the test that there is one
modulePathToModuleDev_ProbesUnregistered(r, modInfo, el) ==
  IF modInfo.kind # "info"
  THEN [kind |-> "undefined", path |-> <<>>, prof |-> 0, form |-> 0, log |-> <<>>]
  ELSE LET moduleName == getModuleName(modInfo)
           srcFolder == getSrcFolder(modInfo)
           lookup == <<Ev("reg", el, moduleName)>>
           dir == IF moduleName \in DOMAIN reg[r] THEN reg[r][moduleName] ELSE <<"undefined">>
           res == DevForms(dir, moduleName, srcFolder, resolveModulePath(modInfo.path), 1, el)
       IN  [kind |-> IF res.ok THEN "path" ELSE "error",
            path |-> res.path, prof |-> res.prof, form |-> res.form,
            log |-> lookup \o res.log]

\* modulePathToModuleDev(modInfo) on Resolver r
modulePathToModuleDev(r, modInfo, el) ==
  IF modInfo.kind # "info"
  THEN [kind |-> "undefined", path |-> <<>>, prof |-> 0, form |-> 0, log |-> <<>>]
  ELSE LET moduleName == getModuleName(modInfo)
           srcFolder == getSrcFolder(modInfo)
           lookup == <<Ev("reg", el, moduleName)>>
       IN  IF moduleName \notin DOMAIN reg[r]
           THEN [kind |-> "error", path |-> <<>>, prof |-> 0, form |-> 0, log |-> lookup]
           ELSE LET res == DevForms(reg[r][moduleName], moduleName, srcFolder,
                                    resolveModulePath(modInfo.path), 1, el)
                IN  [kind |-> IF res.ok THEN "path" ELSE "error",
                     path |-> res.path, prof |-> res.prof, form |-> res.form,
                     log |-> lookup \o res.log]

(***************************************************************************)
(* lib/util/file.js: the archive extractor                                 *)
(***************************************************************************)
\* the jar named after the module without its Test suffix, as the dev attempt
\* names its directories
JarPath_CanonicalName(r, moduleName, i) ==
  niagaraHome[r] \o <<"/", "modules", "/">> \o getModuleName([name |-> moduleName])
    \o RUNTIME_PROFILES[i] \o <<".jar">>

JarPath(r, moduleName, i) ==
  niagaraHome[r] \o <<"/", "modules", "/">> \o moduleName \o RUNTIME_PROFILES[i] \o <<".jar">>

\* retrieveFromZip: the index of the first entry whose normalized name is the
\* normalized target, 0 when there is none
retrieveFromZip(entries, filePath) ==
  LET hits == {n \in 1..Len(entries) : normalized(entries[n].entryName) = normalized(filePath)}
  IN  IF hits = {} THEN 0 ELSE CHOOSE n \in hits : \A m \in hits : n <= m

\* the rejection of getTmpFileFromJarPath, whatever went wrong
CannotRead(jarPath) == <<"cannot read zip file at ">> \o jarPath

\* the jar handed to AdmZip without fs.access having been asked
getTmpFileFromJarPath_OpensUntested(jarPath, modulePath) ==
  IF jarPath \notin DOMAIN jars
  THEN [found |-> FALSE, opened |-> TRUE, err |-> CannotRead(jarPath)]
  ELSE LET n == retrieveFromZip(jars[jarPath], modulePath)
       IN  IF n = 0 THEN [found |-> FALSE, opened |-> TRUE, err |-> CannotRead(jarPath)]
           ELSE [found |-> TRUE, opened |-> TRUE, err |-> <<>>, entry |-> jars[jarPath][n]]

\* getTmpFileFromJarPath(jarPath, moduleName, modulePath): the matched entry,
\* or the rejection when the jar is unreadable or has no such entry
getTmpFileFromJarPath(jarPath, modulePath) ==
  IF jarPath \notin DOMAIN jars
  THEN [found |-> FALSE, opened |-> FALSE, err |-> CannotRead(jarPath)]
  ELSE LET n == retrieveFromZip(jars[jarPath], modulePath)
       IN  IF n = 0 THEN [found |-> FALSE, opened |-> TRUE, err |-> CannotRead(jarPath)]
           ELSE [found |-> TRUE, opened |-> TRUE, err |-> <<>>, entry |-> jars[jarPath][n]]

TmpRoot == <<"tmp">>

\* temp.mkdir called by every extraction: a directory of its own each time
getTmpDir_MadeEachTime == IF tmpDir = <<>> THEN TmpRoot ELSE tmpDir \o <<"+">>

\* getTmpDir(): the directory is made on first need only
getTmpDir == IF tmpDir = <<>> THEN TmpRoot ELSE tmpDir

\* writeTempFile: the entry's bytes at tmpDir/moduleName/entryName
writeTempFilePath(dirPath, moduleName, entryName) ==
  PathJoin(<<dirPath, moduleName, entryName>>)

writeTempFile(files, dirPath, moduleName, entry) ==
  (writeTempFilePath(dirPath, moduleName, entry.entryName) :> entry.data) @@ files

\* writeTempDirectory: zip.extractEntryTo(entryName, modulePath, false, false)
writeTempDirectoryPath(dirPath, moduleName, entryName) ==
  normalized(PathJoin(<<dirPath, moduleName, entryName>>))

\* one child of the directory entry: written below modulePath at its name
\* relative to the directory, unless a file is already there (overwrite = false)
ExtractChild_Overwrite(files, modulePath, entryName, child) ==
  LET target == PathJoin(<<modulePath, DropFirst(child.entryName, Len(entryName))>>)
  IN  IF child.isDirectory \/ ~StartsWith(child.entryName, entryName)
      THEN files
      ELSE (target :> child.data) @@ files

ExtractChild(files, modulePath, entryName, child) ==
  LET target == PathJoin(<<modulePath, DropFirst(child.entryName, Len(entryName))>>)
  IN  IF child.isDirectory \/ ~StartsWith(child.entryName, entryName) \/ target \in DOMAIN files
      THEN files
      ELSE (target :> child.data) @@ files

RECURSIVE ExtractChildren(_, _, _, _, _)
ExtractChildren(files, modulePath, entryName, entries, n) ==
  IF n > Len(entries) THEN files
  ELSE ExtractChildren(ExtractChild(files, modulePath, entryName, entries[n]),
                       modulePath, entryName, entries, n + 1)

writeTempDirectory(files, dirPath, moduleName, entry, entries) ==
  ExtractChildren(files, writeTempDirectoryPath(dirPath, moduleName, entry.entryName),
                  entry.entryName, entries, 1)

(***************************************************************************)
(* The file systems and the requests of the model                          *)
(***************************************************************************)
Resolvers == {1, 2}

MaxInFlight == 2

Slots == 1..MaxInFlight

A == <<"a">>
ATest == <<"a", "Test">>
DirD == <<"D">>
DirE == <<"E">>
HomeH == <<"H">>
Undefined == <<"undefined">>

RelJs == <<"rc", "/", "f", ".js">>
RelNoExt == <<"rc", "/", "f">>
RelDir == <<"rc">>

UX == <<"-ux">>
RT == <<"-rt">>
WB == <<"-wb">>
SE == <<"-se">>
NP == <<>>

\* the suffixes in the order the documentation gives them
ProfileOrder == <<UX, RT, WB, SE, NP>>

Dev(dir, name, suffix, src, rel) == PathJoin(<<dir, name \o suffix, <<src>>, rel>>)

Jar(name, suffix) == HomeH \o <<"/", "modules", "/">> \o name \o suffix \o <<".jar">>

DirEntry(name) == [entryName |-> name, isDirectory |-> TRUE, data |-> "dir"]
FileEntry(name, data) == [entryName |-> name, isDirectory |-> FALSE, data |-> data]

RcDir == DirEntry(<<"rc", "/">>)
RcFile(base, ext, data) == FileEntry(<<"rc", "/", base>> \o ext, data)

Reg0 == <<>>
Reg1 == (A :> DirD)
Reg2 == (A :> DirD) @@ (ATest :> DirE)

(***************************************************************************)
(* lib/moduledev.js: fromRawString and fromFile                            *)
(***************************************************************************)
\* a properties text: what properties.parse makes of it
Parsed(r) == [state |-> "ok", reg |-> r]
Unparsable == [state |-> "unparsable", reg |-> <<>>]
EmptyString == [state |-> "empty", reg |-> <<>>]
\* a file that fs.readFile cannot load
Missing == [state |-> "missing", reg |-> <<>>]
Unreadable == [state |-> "unreadable", reg |-> <<>>]
\* no file name: getDefaultFilePath() returned null
NoFileName == [state |-> "noname", reg |-> <<>>]

NoError == <<>>

\* callback(err): no Resolver is made
CallbackError(msg) == [err |-> msg, resolver |-> FALSE, reg |-> <<>>, read |-> FALSE]
\* callback(null, new Resolver(reg, config))
CallbackResolver(r) == [err |-> NoError, resolver |-> TRUE, reg |-> r, read |-> FALSE]
\* the callback of fs.readFile: the file has been read, or the read has failed
AfterReadFile(cb) == [cb EXCEPT !.read = TRUE]

Null == <<"null">>

\* getNiagaraHome(config): config.niagaraHome, else process.env.niagara_home
getNiagaraHome(configHome, envHome) ==
  IF configHome # Undefined THEN configHome ELSE envHome

\* getDefaultFilePath(config), given what getNiagaraHome(config) returns
getDefaultFilePath(home) ==
  IF home # Undefined THEN PathJoin(<<home, <<"etc", SLASH, "moduledev.properties">>>>)
  ELSE Null

\* fromRawString(str, config, callback)
fromRawString(str, home) ==
  IF str.state = "empty" THEN CallbackError(<<"properties string must be provided">>)
  ELSE IF str.state = "unparsable" THEN CallbackResolver(<<>>)
  ELSE CallbackResolver(str.reg)

\* a file that cannot be loaded is reported to the caller
fromFile_ReadErrorPassed(file, home) ==
  IF file.state = "noname" THEN CallbackError(<<"file name must be provided">>)
  ELSE IF home = Undefined THEN CallbackError(<<"niagara_home could not be determined">>)
  ELSE IF file.state \in {"missing", "unreadable"} THEN AfterReadFile(CallbackError(<<"ENOENT">>))
  ELSE IF file.state = "unparsable" THEN AfterReadFile(CallbackResolver(<<>>))
  ELSE AfterReadFile(CallbackResolver(file.reg))

\* the file is read whether or not niagara_home is known
fromFile_HomeNotTested(file, home) ==
  IF file.state = "noname" THEN CallbackError(<<"file name must be provided">>)
  ELSE IF file.state \in {"missing", "unreadable"} THEN AfterReadFile(CallbackResolver(<<>>))
  ELSE IF file.state = "unparsable" THEN AfterReadFile(CallbackResolver(<<>>))
  ELSE AfterReadFile(CallbackResolver(file.reg))

\* fromFile(fileName, config, callback)
fromFile(file, home) ==
  IF file.state = "noname" THEN CallbackError(<<"file name must be provided">>)
  ELSE IF home = Undefined THEN CallbackError(<<"niagara_home could not be determined">>)
  ELSE IF file.state \in {"missing", "unreadable"} THEN AfterReadFile(CallbackResolver(<<>>))
  ELSE IF file.state = "unparsable" THEN AfterReadFile(CallbackResolver(<<>>))
  ELSE AfterReadFile(CallbackResolver(file.reg))

\* fromFile(callback): fileName = exports.getDefaultFilePath(), from the
\* environment alone
DefaultFile(envHome, file) ==
  IF getDefaultFilePath(getNiagaraHome(Undefined, envHome)) = Null THEN NoFileName ELSE file

RawString(str) == [op |-> "fromRawString", src |-> str]
File(file) == [op |-> "fromFile", src |-> file]

\* the factory call and what it called back with
Make(how, home) ==
  LET cb == IF how.op = "fromFile" THEN fromFile(how.src, home)
            ELSE fromRawString(how.src, home)
  IN  [op |-> how.op, src |-> how.src, err |-> cb.err, resolver |-> cb.resolver,
       reg |-> cb.reg, read |-> cb.read]

\* the two Resolvers: which of them has a registry, which an install root
Registered ==
  [how |-> <<RawString(Parsed(Reg1)), File(Parsed(Reg2))>>, home |-> <<Undefined, HomeH>>]
Installed ==
  [how |-> <<File(Missing), RawString(Parsed(Reg1))>>, home |-> <<HomeH, Undefined>>]
InstalledUnreadable ==
  [how |-> <<File(Unreadable), RawString(Parsed(Reg1))>>, home |-> <<HomeH, Undefined>>]
InstalledUnparsable ==
  [how |-> <<File(Unparsable), RawString(Unparsable)>>, home |-> <<HomeH, Undefined>>]
BothInstalled ==
  [how |-> <<RawString(Parsed(Reg1)), File(Parsed(Reg0))>>, home |-> <<HomeH, HomeH>>]
\* fromFile without niagara_home in config or environment; with a file name,
\* and with the default one
HomeUnknown ==
  [how |-> <<File(Parsed(Reg1)), File(Parsed(Reg1))>>,
   home |-> <<getNiagaraHome(Undefined, Undefined), getNiagaraHome(HomeH, Undefined)>>]
HomeUnknownDefault ==
  [how |-> <<File(Missing), File(DefaultFile(Undefined, Parsed(Reg1)))>>,
   home |-> <<getNiagaraHome(HomeH, Undefined), getNiagaraHome(Undefined, Undefined)>>]

Dev0 == {}
Dev1 == {Dev(DirD, A, RT, "src", RelJs), Dev(DirD, A, SE, "src", RelJs),
         Dev(DirD, A, UX, "src", RelDir)}
Dev2 == {Dev(DirD, A, UX, "src", RelJs), Dev(DirD, A, NP, "src", RelNoExt)}
Dev3 == {Dev(DirD, A, WB, "srcTest", RelJs), Dev(DirD, A, UX, "src", RelJs),
         Dev(DirE, ATest, UX, "src", RelJs), Dev(DirE, ATest, UX, "srcTest", RelJs)}
Dev4 == {Dev(DirD, A, NP, "src", RelJs), Dev(DirD, A, SE, "srcTest", RelNoExt)}

Jars0 == <<>>
Jars1 == (Jar(A, UX) :> <<RcDir, RcFile("f", <<".js">>, "ux-f"), RcFile("u", <<".js">>, "ux-u")>>)
      @@ (Jar(A, RT) :> <<RcDir, RcFile("f", <<".js">>, "rt-f"), RcFile("r", <<".js">>, "rt-r")>>)
Jars2 == (Jar(A, RT) :> <<RcDir, RcFile("f", <<".js">>, "rt-f")>>)
      @@ (Jar(A, SE) :> <<RcDir, RcFile("f", <<>>, "se-f")>>)
Jars3 == (Jar(A, NP) :> <<RcDir, RcFile("f", <<".js">>, "np-f")>>)
      @@ (Jar(ATest, UX) :> <<RcDir, RcFile("f", <<".js">>, "test-f")>>)
Jars4 == (Jar(A, UX) :> <<RcDir, RcFile("f", <<>>, "ux-noext")>>)
Jars5 == (Jar(A, UX) :> <<DirEntry(<<"lib", "/">>)>>)
      @@ (Jar(A, WB) :> <<RcDir, RcFile("f", <<".js">>, "wb-f")>>)
Jars6 == (Jar(A, SE) :> <<DirEntry(<<"lib", "/">>), FileEntry(<<"lib", "/", "f", ".js">>, "se-lib")>>)
Jars7 == (Jar(ATest, RT) :> <<RcFile("f", <<".js">>, "test-rt-f")>>)
Jars8 == (Jar(A, UX) :> <<RcDir, RcFile("f", <<".js">>, "ux-f")>>)
      @@ (Jar(A, NP) :> <<RcDir, RcFile("f", <<>>, "np-noext")>>)

FileSystems ==
  { [rs |-> Registered, dev |-> d, jars |-> Jars1] : d \in {Dev1, Dev2, Dev3, Dev4} }
  \cup { [rs |-> Registered, dev |-> Dev1, jars |-> Jars0] }
  \cup { [rs |-> Installed, dev |-> Dev0, jars |-> j] : j \in {Jars0, Jars1, Jars2, Jars8} }
  \cup { [rs |-> InstalledUnreadable, dev |-> Dev0, jars |-> j] : j \in {Jars3, Jars4} }
  \cup { [rs |-> InstalledUnparsable, dev |-> Dev0, jars |-> j] : j \in {Jars5, Jars6} }
  \cup { [rs |-> BothInstalled, dev |-> Dev0, jars |-> Jars7] }
  \cup { [rs |-> HomeUnknown, dev |-> Dev4, jars |-> Jars0],
         [rs |-> HomeUnknownDefault, dev |-> Dev0, jars |-> Jars7] }

UrlJs == <<"/", "module", "/", "a", "/", "rc", "/", "f", ".js">>
OrdTest == <<"module", ":", "/", "/", "a", "Test", "/", "rc", "/", "f", ".js">>
OrdDir == <<"module", ":", "/", "/", "a", "/", "rc">>
NmodFile == <<"nmodule", "/", "a", "/", "rc", "/", "f">>
NmodJs == <<"nmodule", "/", "a", "/", "rc", "/", "f", ".js">>
Unrecognized == <<"module", ":", "/", "a", "/", "rc", "/", "f", ".js">>
Misspelt == <<"/", "moodule", "/", "a", "/", "rc", "/", "f", ".js">>
Malformed == <<"/", "module", "/", "a">>
MalformedAt0 == <<"/", "module", "/", "/", "rc", "/", "f">>
MalformedEmpty == <<"module", ":", "/", "/">>
MalformedNmod == <<"nmodule", "/", "a">>

Urls == {UrlJs, OrdTest, OrdDir, NmodFile, NmodJs, Unrecognized, Misspelt,
         Malformed, MalformedAt0, MalformedEmpty, MalformedNmod}

Single(u) == [elems |-> <<u>>, list |-> FALSE]
List(us) == [elems |-> us, list |-> TRUE]

Lists == { List(<<>>), List(<<OrdTest, UrlJs>>), List(<<Unrecognized, UrlJs>>),
           List(<<OrdTest, OrdTest>>),
           List(<<Malformed, UrlJs>>), List(<<OrdTest, Malformed, UrlJs>>),
           List(<<OrdTest, OrdDir>>) }

FilePathArgs == { Single(u) : u \in Urls } \cup Lists

Keyed(k, a) == [key |-> k, elems |-> a.elems, list |-> a.list]

Mappings ==
  { <<Keyed("k1", Single(UrlJs)), Keyed("k2", Single(OrdDir))>>,
    <<Keyed("k1", Single(NmodFile)), Keyed("k2", Single(OrdTest))>>,
    <<Keyed("k1", Single(UrlJs)), Keyed("k2", Single(Malformed))>>,
    <<Keyed("k1", Single(Unrecognized))>>,
    <<Keyed("k1", List(<<OrdTest, UrlJs>>))>>,
    <<Keyed("k1", List(<<OrdTest, Malformed>>)), Keyed("k2", Single(UrlJs))>>,
    <<>> }

(***************************************************************************)
(* Promises: the result of a resolution and of a call                      *)
(***************************************************************************)
Pending == [kind |-> "pending", val |-> <<>>]
Fulfilled(path) == [kind |-> "path", val |-> path]
FulfilledUndefined == [kind |-> "undefined", val |-> <<>>]
\* rejected with new Error(msg)
Rejected(msg) == [kind |-> "error", val |-> msg]
\* rejected with a thrown string
RejectedString(msg) == [kind |-> "string", val |-> msg]
RejectedTypeError == [kind |-> "TypeError", val |-> <<"Cannot read property 'replace' of undefined">>]
\* the call itself threw: no promise, no callback
Thrown(msg) == [kind |-> "thrown", val |-> msg]
DeliveredPaths == [kind |-> "paths", val |-> <<>>]

IsRejection(o) == o.kind \in {"error", "string", "TypeError"}

Idle == [op |-> "idle", r |-> 0, arg |-> <<>>, tasks |-> <<>>, out |-> Pending, result |-> <<>>]

NoInfo == [kind |-> "empty"]

\* the paths already delivered from the archives for url on Resolver r
PriorOf(r, url) == {d[3] : d \in {x \in done : x[1] = r /\ x[2] = url}}

\* one toFilePath(url) in flight: the element of the list it is at, the
\* parsed element, and where its search stands
NewTask(r, item, info) ==
  [elems |-> item.elems, list |-> item.list, idx |-> 1, info |-> info,
   pc |-> "dev", pass |-> 1, prof |-> 1, out |-> Pending, src |-> "none",
   devProf |-> 0, devForm |-> 0, hitProf |-> 0, hitForm |-> 0, merged |-> <<>>,
   prior |-> IF item.elems = <<>> THEN {} ELSE PriorOf(r, item.elems[1]),
   log |-> <<>>]

\* an identifier some Resolver has cached is answered {} instead of parsed
FirstInfo_CachedNotParsed(item) ==
  IF item.elems = <<>> THEN NoInfo
  ELSE LET info == getModuleFileInfo(item.elems[1])
       IN  IF info.kind = "info"
              /\ \E r \in Resolvers : info.fullPath \in DOMAIN filePathCache[r]
           THEN [kind |-> "empty"]
           ELSE info

\* the parse that toFilePath makes before it returns a promise
FirstInfo(item) ==
  IF item.elems = <<>> THEN NoInfo ELSE getModuleFileInfo(item.elems[1])

\* a list goes on to its next element after an element has been delivered
Finish_ListGoesOn(t, out, src) ==
  IF t.list /\ out.kind = "path" /\ t.idx < Len(t.elems)
        /\ getModuleFileInfo(t.elems[t.idx + 1]).kind = "info"
  THEN [t EXCEPT !.idx = t.idx + 1, !.info = getModuleFileInfo(t.elems[t.idx + 1]),
                 !.pc = "dev", !.pass = 1, !.prof = 1, !.merged = <<>>]
  ELSE [t EXCEPT !.pc = "done", !.out = out, !.src = src]

Finish(t, out, src) == [t EXCEPT !.pc = "done", !.out = out, !.src = src]

\* arrayToFilePath: the element at idx was rejected with err; fromIndex(idx + 1)
\* runs inside the catch handler, where a throwing parse rejects the whole list
arrayToFilePath(r, t, err) ==
  IF ~t.list THEN Finish(t, err, "none")
  ELSE IF t.idx + 1 > Len(t.elems)
  THEN Finish(t, Rejected(<<"no valid entries in array ">> \o ArrJoin(t.elems)), "none")
  ELSE LET info == getModuleFileInfo(t.elems[t.idx + 1])
       IN  IF info.kind = "throw"
           THEN Finish([t EXCEPT !.idx = t.idx + 1, !.info = info], RejectedString(info.msg), "none")
           ELSE [t EXCEPT !.idx = t.idx + 1, !.info = info, !.pc = "dev",
                          !.pass = 1, !.prof = 1, !.merged = <<>>,
                          !.prior = PriorOf(r, t.elems[t.idx + 1])]

\* the rejection a failed key hands to Promise.all, replaced by a text of
\* getRequireJsPaths' own
KeyRejection_Generic(t) ==
  IF t.out.kind = "path" THEN Pending ELSE Rejected(<<"could not resolve paths">>)

\* what the resolution of one key contributes to Promise.all: nothing yet for
\* a path, the TypeError of stripExtension(undefined), else its own rejection
KeyRejection(t) ==
  IF t.out.kind = "path" THEN Pending
  ELSE IF t.out.kind = "undefined" THEN RejectedTypeError
  ELSE t.out

\* what the then / error handlers of the call do when task k has settled
Settle(c, k) ==
  LET t == c.tasks[k]
  IN  IF t.pc # "done" THEN c
      ELSE IF c.op = "getFilePath"
      THEN [c EXCEPT !.out = t.out]
      ELSE LET key == c.arg[k].key
               stored == IF t.out.kind = "path"
                         THEN (key :> stripExtension(t.out.val)) @@ c.result
                         ELSE c.result
               mine == KeyRejection(t)
               all == \A n \in 1..Len(c.tasks) :
                        c.tasks[n].pc = "done" /\ c.tasks[n].out.kind = "path"
           IN  [c EXCEPT !.result = stored,
                         !.out = IF c.out.kind # "pending" THEN c.out
                                 ELSE IF IsRejection(mine) THEN mine
                                 ELSE IF all THEN DeliveredPaths
                                 ELSE Pending]

Complete(c) == c.op = "idle" \/ \A k \in 1..Len(c.tasks) : c.tasks[k].pc = "done"

(***************************************************************************)
(* Init                                                                    *)
(***************************************************************************)
Init ==
  /\ \E fs \in FileSystems :
       /\ made = [r \in Resolvers |-> Make(fs.rs.how[r], fs.rs.home[r])]
       /\ reg = [r \in Resolvers |-> Make(fs.rs.how[r], fs.rs.home[r]).reg]
       /\ niagaraHome = fs.rs.home
       /\ devFiles = fs.dev
       /\ jars = fs.jars
  /\ limit = 1
  /\ filePathCache = [r \in Resolvers |-> <<>>]
  /\ tmpDir = <<>>
  /\ mkdirCalls = 0
  /\ tmpFiles = <<>>
  /\ calls = [s \in Slots |-> Idle]
  /\ done = {}

(***************************************************************************)
(* Resolver.getFilePath(url, callback)                                     *)
(***************************************************************************)
getFilePath(s, r, a) ==
  /\ s <= limit
  /\ made[r].resolver
  /\ Complete(calls[s])
  /\ LET info == FirstInfo(a)
         item == Keyed("", a)
     IN  calls' = [calls EXCEPT ![s] =
           IF info.kind = "throw"
           THEN [op |-> "getFilePath", r |-> r, arg |-> <<item>>, tasks |-> <<>>,
                 out |-> Thrown(info.msg), result |-> <<>>]
           ELSE [op |-> "getFilePath", r |-> r, arg |-> <<item>>,
                 tasks |-> <<NewTask(r, a, info)>>, out |-> Pending, result |-> <<>>]]
  /\ UNCHANGED <<world, filePathCache, tmpDir, mkdirCalls, tmpFiles, done, limit>>

(***************************************************************************)
(* Resolver.getRequireJsPaths(paths, callback)                             *)
(***************************************************************************)
\* Object.keys(paths).map(...): a task per key, up to the first key whose
\* parse throws; that throw leaves getRequireJsPaths
RECURSIVE MapKeys(_, _, _)
MapKeys(r, m, k) ==
  IF k > Len(m) THEN [tasks |-> <<>>, out |-> Pending]
  ELSE LET info == FirstInfo(m[k])
       IN  IF info.kind = "throw" THEN [tasks |-> <<>>, out |-> Thrown(info.msg)]
           ELSE LET rest == MapKeys(r, m, k + 1)
                IN  [rest EXCEPT !.tasks = <<NewTask(r, m[k], info)>> \o @]

getRequireJsPaths(s, r, m) ==
  /\ s <= limit
  /\ made[r].resolver
  /\ Complete(calls[s])
  /\ LET started == MapKeys(r, m, 1)
     IN  calls' = [calls EXCEPT ![s] =
           [op |-> "getRequireJsPaths", r |-> r, arg |-> m, tasks |-> started.tasks,
            out |-> IF started.out.kind = "pending" /\ m = <<>>
                    THEN DeliveredPaths ELSE started.out,
            result |-> <<>>]]
  /\ UNCHANGED <<world, filePathCache, tmpDir, mkdirCalls, tmpFiles, done, limit>>

(***************************************************************************)
(* urlToFilePath: the dev-directory attempt, then the cache                *)
(***************************************************************************)
\* filePathCache declared once for the module, so that every Resolver writes
\* the same object
CacheWrite_Shared(r, fullPath, path) ==
  [q \in Resolvers |-> (fullPath :> path) @@ filePathCache[q]]

\* a cache of one entry: the path written last replaces what was there
CacheWrite_LastOnly(r, fullPath, path) ==
  [filePathCache EXCEPT ![r] = (fullPath :> path)]

\* filePathCache[fullModulePath] = info.path, in the closure of Resolver r
CacheWrite(r, fullPath, path) ==
  [filePathCache EXCEPT ![r] = (fullPath :> path) @@ @]

\* getTmpFileFromModuleInfo, up to the first jar: the cache is read
CacheHit_Never(r, modInfo) == FALSE

CacheHit(r, modInfo) == modInfo.fullPath \in DOMAIN filePathCache[r]

\* dir = reg[moduleName], kept as a miss once the name was not registered
RegistryAfter_MissRecorded(r, modInfo) ==
  IF modInfo.kind = "info" /\ getModuleName(modInfo) \notin DOMAIN reg[r]
  THEN (getModuleName(modInfo) :> <<>>) @@ reg[r]
  ELSE reg[r]

\* dir = reg[moduleName]: the registry of Resolver r after the lookup made
\* for modInfo; the lookup only reads it
RegistryAfter(r, modInfo) == reg[r]

\* an identifier that has failed earlier in the list fails again unsearched
DevStep_RemembersFailure(r, t) ==
  IF t.list /\ t.idx > Len(t.elems)
  THEN Finish(t, Rejected(<<"no valid entries in array ">> \o ArrJoin(t.elems)), "none")
  ELSE IF t.list /\ \E i \in 1..(t.idx - 1) : t.elems[i] = t.elems[t.idx]
  THEN arrayToFilePath(r, t, Rejected(<<"could not find ">> \o t.info.fullPath
                                      \o <<" in any JAR module">>))
  ELSE LET d == modulePathToModuleDev(r, t.info, t.idx)
           t1 == [t EXCEPT !.log = @ \o d.log]
       IN  IF d.kind = "undefined" THEN Finish(t1, FulfilledUndefined, "none")
           ELSE IF d.kind = "path"
           THEN Finish([t1 EXCEPT !.devProf = d.prof, !.devForm = d.form],
                       Fulfilled(d.path), "dev")
           ELSE LET t2 == [t1 EXCEPT !.log = @ \o <<Ev("cache", t.idx, t.info.fullPath)>>]
                IN  IF CacheHit(r, t.info)
                    THEN Finish(t2, Fulfilled(filePathCache[r][t.info.fullPath]), "cache")
                    ELSE [t2 EXCEPT !.pc = "jar", !.pass = 1, !.prof = 1]

\* the cache consulted before the dev directories
DevStep_CacheFirst(r, t) ==
  IF t.list /\ t.idx > Len(t.elems)
  THEN Finish(t, Rejected(<<"no valid entries in array ">> \o ArrJoin(t.elems)), "none")
  ELSE IF t.info.kind = "info" /\ CacheHit(r, t.info)
  THEN Finish([t EXCEPT !.log = @ \o <<Ev("cache", t.idx, t.info.fullPath)>>],
              Fulfilled(filePathCache[r][t.info.fullPath]), "cache")
  ELSE LET d == modulePathToModuleDev(r, t.info, t.idx)
           t1 == [t EXCEPT !.log = @ \o d.log]
       IN  IF d.kind = "undefined" THEN Finish(t1, FulfilledUndefined, "none")
           ELSE IF d.kind = "path"
           THEN Finish([t1 EXCEPT !.devProf = d.prof, !.devForm = d.form],
                       Fulfilled(d.path), "dev")
           ELSE [t1 EXCEPT !.log = @ \o <<Ev("cache", t.idx, t.info.fullPath)>>,
                           !.pc = "jar", !.pass = 1, !.prof = 1]

\* the archive consulted without the dev directories being tried first
DevStep_ArchiveFirst(r, t) ==
  IF t.info.kind = "info" THEN [t EXCEPT !.pc = "jar"] ELSE Finish(t, FulfilledUndefined, "none")

\* a registered module whose path no profile directory holds fails at once
DevStep_RegisteredFailsOutright(r, t) ==
  IF t.list /\ t.idx > Len(t.elems)
  THEN Finish(t, Rejected(<<"no valid entries in array ">> \o ArrJoin(t.elems)), "none")
  ELSE LET d == modulePathToModuleDev(r, t.info, t.idx)
           t1 == [t EXCEPT !.log = @ \o d.log]
       IN  IF d.kind = "undefined" THEN Finish(t1, FulfilledUndefined, "none")
           ELSE IF d.kind = "path"
           THEN Finish([t1 EXCEPT !.devProf = d.prof, !.devForm = d.form],
                       Fulfilled(d.path), "dev")
           ELSE IF getModuleName(t.info) \in DOMAIN reg[r]
           THEN arrayToFilePath(r, t1, Rejected(<<"could not find ">> \o t.info.fullPath
                                                  \o <<" in any JAR module">>))
           ELSE LET t2 == [t1 EXCEPT !.log = @ \o <<Ev("cache", t.idx, t.info.fullPath)>>]
                IN  IF CacheHit(r, t.info)
                    THEN Finish(t2, Fulfilled(filePathCache[r][t.info.fullPath]), "cache")
                    ELSE [t2 EXCEPT !.pc = "jar", !.pass = 1, !.prof = 1]

DevStep(r, t) ==
  IF t.list /\ t.idx > Len(t.elems)
  THEN Finish(t, Rejected(<<"no valid entries in array ">> \o ArrJoin(t.elems)), "none")
  ELSE LET d == modulePathToModuleDev(r, t.info, t.idx)
           t1 == [t EXCEPT !.log = @ \o d.log]
       IN  IF d.kind = "undefined" THEN Finish(t1, FulfilledUndefined, "none")
           ELSE IF d.kind = "path"
           THEN Finish([t1 EXCEPT !.devProf = d.prof, !.devForm = d.form],
                       Fulfilled(d.path), "dev")
           ELSE LET t2 == [t1 EXCEPT !.log = @ \o <<Ev("cache", t.idx, t.info.fullPath)>>]
                IN  IF CacheHit(r, t.info)
                    THEN Finish(t2, Fulfilled(filePathCache[r][t.info.fullPath]), "cache")
                    ELSE [t2 EXCEPT !.pc = "jar", !.pass = 1, !.prof = 1]

\* a resolution that ended with a path from the cache or from a jar
Archived(r, t) ==
  IF t.pc = "done" /\ t.src \in {"cache", "archive"}
  THEN {<<r, t.elems[t.idx], t.out.val>>}
  ELSE {}

TaskDev(s, k) ==
  /\ calls[s].op # "idle"
  /\ k \in 1..Len(calls[s].tasks)
  /\ calls[s].tasks[k].pc = "dev"
  /\ LET r == calls[s].r
         t == DevStep(r, calls[s].tasks[k])
     IN  /\ calls' = [calls EXCEPT ![s] = Settle([@ EXCEPT !.tasks[k] = t], k)]
         /\ done' = done \cup Archived(r, t)
         /\ reg' = [reg EXCEPT ![r] = RegistryAfter(r, calls[s].tasks[k].info)]
  /\ UNCHANGED <<niagaraHome, made, devFiles, jars, filePathCache, tmpDir, mkdirCalls,
                 tmpFiles, limit>>

(***************************************************************************)
(* getTmpFileFromModuleInfo: the jars of the runtime profiles              *)
(***************************************************************************)
\* fromProfile(i) up to the first jar that holds the entry: the jars tested
\* and opened on the way
\* the rejection of fromProfile(i) once every profile has been tried
NotFoundError_NoName(modInfo) == Rejected(<<"could not find module">>)

NotFoundError(modInfo) ==
  Rejected(<<"could not find ">> \o modInfo.fullPath \o <<" in any JAR module">>)

\* what one getTmpFileFromJarPath leaves in the log: the readability test,
\* the opening of a readable jar, and the rejection when no entry was found
JarEvents(el, jarPath, got) ==
  <<Ev("access", el, jarPath)>>
  \o (IF got.opened THEN <<Ev("open", el, jarPath)>> ELSE <<>>)
  \o (IF got.found THEN <<>> ELSE <<Ev("reject", el, got.err)>>)

RECURSIVE JarFromProfile(_, _, _, _, _)
JarFromProfile(r, moduleName, modulePath, i, el) ==
  IF i > Len(RUNTIME_PROFILES) THEN [found |-> FALSE, prof |-> 0, log |-> <<>>]
  ELSE LET jarPath == JarPath(r, moduleName, i)
           got == getTmpFileFromJarPath(jarPath, modulePath)
           evs == JarEvents(el, jarPath, got)
       IN  IF got.found THEN [found |-> TRUE, prof |-> i, log |-> evs]
           ELSE LET rest == JarFromProfile(r, moduleName, modulePath, i + 1, el)
                IN  [rest EXCEPT !.log = evs \o @]

TaskJar(s, k) ==
  /\ calls[s].op # "idle"
  /\ k \in 1..Len(calls[s].tasks)
  /\ calls[s].tasks[k].pc = "jar"
  /\ LET r == calls[s].r
         t == calls[s].tasks[k]
         modInfo == t.info
         forms == resolveModulePath(modInfo.path)
         scan == JarFromProfile(r, modInfo.name, forms[t.pass], t.prof, t.idx)
         t1 == [t EXCEPT !.log = @ \o scan.log]
         jarPath == JarPath(r, modInfo.name, scan.prof)
         entry == getTmpFileFromJarPath(jarPath, forms[t.pass]).entry
         dirPath == getTmpDir
         path == IF entry.isDirectory
                 THEN writeTempDirectoryPath(dirPath, modInfo.name, entry.entryName)
                 ELSE writeTempFilePath(dirPath, modInfo.name, entry.entryName)
         t2 == IF scan.found
               THEN LET t3 == [t1 EXCEPT !.log = @ \o <<Ev("extract", t.idx, path)>>,
                                         !.hitProf = scan.prof, !.hitForm = t.pass]
                    IN  IF entry.isDirectory
                        THEN [t3 EXCEPT !.prof = scan.prof + 1, !.merged = @ \o <<scan.prof>>]
                        ELSE Finish(t3, Fulfilled(path), "archive")
               ELSE IF CacheHit(r, modInfo)
               THEN Finish(t1, Fulfilled(filePathCache[r][modInfo.fullPath]),
                           IF t.merged # <<>> THEN "archive" ELSE "cache")
               ELSE IF t.pass < Len(forms)
               THEN [t1 EXCEPT !.pass = t.pass + 1, !.prof = 1]
               ELSE arrayToFilePath(r, t1, NotFoundError(modInfo))
     IN  /\ calls' = [calls EXCEPT ![s] = Settle([@ EXCEPT !.tasks[k] = t2], k)]
         /\ done' = done \cup Archived(r, t2)
         /\ IF scan.found
            THEN /\ tmpDir' = dirPath
                 /\ mkdirCalls' = IF tmpDir = <<>> THEN mkdirCalls + 1 ELSE mkdirCalls
                 /\ tmpFiles' = IF entry.isDirectory
                                THEN writeTempDirectory(tmpFiles, dirPath, modInfo.name,
                                                        entry, jars[jarPath])
                                ELSE writeTempFile(tmpFiles, dirPath, modInfo.name, entry)
                 /\ filePathCache' = CacheWrite(r, modInfo.fullPath, path)
            ELSE UNCHANGED <<tmpDir, mkdirCalls, tmpFiles, filePathCache>>
  /\ UNCHANGED <<world, limit>>

Next ==
  \/ \E s \in Slots, r \in Resolvers, a \in FilePathArgs : getFilePath(s, r, a)
  \/ \E s \in Slots, r \in Resolvers, m \in Mappings : getRequireJsPaths(s, r, m)
  \/ \E s \in Slots, k \in 1..2 : TaskDev(s, k)
  \/ \E s \in Slots, k \in 1..2 : TaskJar(s, k)

Spec == Init /\ [][Next]_vars

(***************************************************************************)
(* Vocabulary of the properties                                            *)
(***************************************************************************)
\* the tasks of the call in slot s
TasksOf(s) == 1..Len(calls[s].tasks)

\* a getFilePath call for one identifier (not a list) that parsed
SingleCall(s) ==
  /\ calls[s].op = "getFilePath"
  /\ ~calls[s].arg[1].list
  /\ getModuleFileInfo(calls[s].arg[1].elems[1]).kind = "info"

UrlOf(s) == calls[s].arg[1].elems[1]

HasTestSuffix(name) == name # <<>> /\ name[Len(name)] = "Test"

CanonicalName(name) == IF HasTestSuffix(name) THEN SubSeq(name, 1, Len(name) - 1) ELSE name

FolderOf(name) == IF HasTestSuffix(name) THEN "srcTest" ELSE "src"

\* the relative path as requested and, before it, without its .js
FormsOf(rel) ==
  IF rel # <<>> /\ rel[Len(rel)] = ".js"
  THEN <<SubSeq(rel, 1, Len(rel) - 1), rel>>
  ELSE <<rel>>

IsRegistered(r, url) == CanonicalName(getModuleFileInfo(url).name) \in DOMAIN reg[r]

\* registryDir/canonicalName+suffix/srcFolder/relativePath
DevCandidate(r, url, rel, i) ==
  LET name == getModuleFileInfo(url).name
  IN  Dev(reg[r][CanonicalName(name)], CanonicalName(name), ProfileOrder[i], FolderOf(name), rel)

Profiles == 1..Len(ProfileOrder)

\* some profile directory of the registered module holds the requested path
DevHasRequested(r, url) ==
  /\ IsRegistered(r, url)
  /\ \E i \in Profiles : DevCandidate(r, url, getModuleFileInfo(url).path, i) \in devFiles

\* some profile directory holds the path under one of the forms searched
DevHasSome(r, url) ==
  /\ IsRegistered(r, url)
  /\ \E i \in Profiles :
       \E f \in 1..Len(FormsOf(getModuleFileInfo(url).path)) :
         DevCandidate(r, url, FormsOf(getModuleFileInfo(url).path)[f], i) \in devFiles

ArchiveEvents == {"cache", "access", "open", "extract"}

LogHas(t, evs) == \E n \in 1..Len(t.log) : t.log[n].ev \in evs

C2_FirstReadableProfile ==
  \A s \in Slots : \A k \in TasksOf(s) :
    LET t == calls[s].tasks[k]
        r == calls[s].r
        url == t.elems[t.idx]
        forms == FormsOf(getModuleFileInfo(url).path)
    IN  (t.pc = "done" /\ t.src = "dev") =>
          /\ t.out.kind = "path"
          /\ t.out.val \in devFiles
          /\ \E f \in 1..Len(forms) : \E i \in Profiles :
               /\ t.out.val = DevCandidate(r, url, forms[f], i)
               /\ \A j \in 1..(i - 1) : DevCandidate(r, url, forms[f], j) \notin devFiles

\* reached: a delivered dev path of a profile that is neither the first nor
\* the only one with a readable path
C2_Witness ==
  \E s \in Slots : \E k \in TasksOf(s) :
    LET t == calls[s].tasks[k]
        url == t.elems[t.idx]
    IN  /\ t.pc = "done" /\ t.src = "dev"
        /\ t.out.val = DevCandidate(calls[s].r, url, getModuleFileInfo(url).path, 2)
        /\ DevCandidate(calls[s].r, url, getModuleFileInfo(url).path, 4) \in devFiles

(***************************************************************************)
(* C3: for a module name ending in "Test" the dev-directory attempt looks  *)
(* up the name without that suffix in the registry (never the suffixed     *)
(* name) and probes only paths below the base module's directory and its   *)
(* srcTest folder; for any other name it looks up the name unchanged and   *)
(* probes below src.                                                       *)
(***************************************************************************)
C3_TestSuffix ==
  \A s \in Slots : \A k \in TasksOf(s) :
    LET t == calls[s].tasks[k]
        r == calls[s].r
    IN  \A n \in 1..Len(t.log) :
          LET e == t.log[n]
              url == t.elems[e.i]
              name == getModuleFileInfo(url).name
              forms == FormsOf(getModuleFileInfo(url).path)
          IN  /\ e.ev = "reg" => e.p = CanonicalName(name)
              /\ e.ev = "probe" =>
                   \E f \in 1..Len(forms) : \E i \in Profiles :
                     e.p = Dev(reg[r][CanonicalName(name)], CanonicalName(name),
                               ProfileOrder[i], FolderOf(name), forms[f])

\* reached: a ...Test identifier, its suffixed name registered too, delivered
\* from the base module's srcTest folder
C3_Witness ==
  \E s \in Slots : \E k \in TasksOf(s) :
    LET t == calls[s].tasks[k]
    IN  /\ t.pc = "done" /\ t.src = "dev"
        /\ t.elems[t.idx] = OrdTest
        /\ ATest \in DOMAIN reg[calls[s].r]
        /\ t.out.val = Dev(DirD, A, WB, "srcTest", RelJs)

(***************************************************************************)
(* Vocabulary of the archive properties                                    *)
(***************************************************************************)
\* <installRoot>/modules/<moduleName><profileSuffix>.jar
JarOf(r, name, i) ==
  niagaraHome[r] \o <<"/", "modules", "/">> \o name \o ProfileOrder[i] \o <<".jar">>

Matches(entry, rel) == normalized(entry.entryName) = normalized(rel)

\* the jar of profile i is readable and has an entry for rel
HasEntry(r, name, rel, i) ==
  /\ JarOf(r, name, i) \in DOMAIN jars
  /\ \E n \in 1..Len(jars[JarOf(r, name, i)]) : Matches(jars[JarOf(r, name, i)][n], rel)

EntryOf(r, name, rel, i) ==
  LET es == jars[JarOf(r, name, i)]
  IN  es[CHOOSE n \in 1..Len(es) :
            Matches(es[n], rel) /\ \A m \in 1..(n - 1) : ~Matches(es[m], rel)]

\* the last event of one of the kinds evs in the log of t, for element el
LastEvent(t, el, evs) ==
  LET ns == {n \in 1..Len(t.log) : t.log[n].i = el /\ t.log[n].ev \in evs}
  IN  t.log[CHOOSE n \in ns : \A m \in ns : m <= n]

(***************************************************************************)
(* C4 as stated: when the dev-directory attempt fails and the requested    *)
(* entry is a plain file, the delivered temp path holds the bytes of the   *)
(* requested entry in the first archive, in profile order, that is         *)
(* readable and contains the requested entry.                              *)
(***************************************************************************)
C4_RequestedEntryFirstArchive ==
  \A s \in Slots : \A k \in TasksOf(s) :
    LET t == calls[s].tasks[k]
        r == calls[s].r
        info == getModuleFileInfo(t.elems[t.idx])
    IN  (/\ t.pc = "done"
         /\ t.src = "archive"
         /\ \E i \in Profiles :
              /\ HasEntry(r, info.name, info.path, i)
              /\ ~EntryOf(r, info.name, info.path, i).isDirectory) =>
          \E i \in Profiles :
            /\ HasEntry(r, info.name, info.path, i)
            /\ \A j \in 1..(i - 1) : ~HasEntry(r, info.name, info.path, j)
            /\ t.out.val \in DOMAIN tmpFiles
            /\ tmpFiles[t.out.val] = EntryOf(r, info.name, info.path, i).data

(***************************************************************************)
(* C4 as amended: when the dev-directory attempt fails and a plain file is *)
(* matched in an archive, the entry is looked for under the forms of the   *)
(* relative path in turn (without its .js first, then as requested), each  *)
(* across all profiles; the delivered temp path is                         *)
(* tmpRoot/moduleName/entryName and holds the bytes of the entry in the    *)
(* first archive, in profile order, that is readable and contains it under *)
(* the first form found anywhere; once the file match is made no further   *)
(* archive is tested or opened.                                            *)
(***************************************************************************)
C4_FirstArchiveOfFirstForm ==
  \A s \in Slots : \A k \in TasksOf(s) :
    LET t == calls[s].tasks[k]
        r == calls[s].r
        info == getModuleFileInfo(t.elems[t.idx])
        forms == FormsOf(info.path)
    IN  (t.pc = "done" /\ t.src = "archive" /\ t.merged = <<>>) =>
          \E f \in 1..Len(forms) : \E i \in Profiles :
            /\ HasEntry(r, info.name, forms[f], i)
            /\ ~EntryOf(r, info.name, forms[f], i).isDirectory
            /\ \A g \in 1..(f - 1) : \A j \in Profiles : ~HasEntry(r, info.name, forms[g], j)
            /\ \A j \in 1..(i - 1) : ~HasEntry(r, info.name, forms[f], j)
            /\ t.out.kind = "path"
            /\ t.out.val = PathJoin(<<TmpRoot, info.name,
                                      EntryOf(r, info.name, forms[f], i).entryName>>)
            /\ t.out.val \in DOMAIN tmpFiles
            /\ tmpFiles[t.out.val] = EntryOf(r, info.name, forms[f], i).data
            /\ LastEvent(t, t.idx, {"access", "open"}).p = JarOf(r, info.name, i)

\* reached: a file delivered from the -wb jar although the -ux jar is
\* readable (it lacks the entry)
C4_Witness ==
  \E s \in Slots : \E k \in TasksOf(s) :
    LET t == calls[s].tasks[k]
        info == getModuleFileInfo(t.elems[t.idx])
    IN  /\ t.pc = "done" /\ t.src = "archive" /\ t.merged = <<>>
        /\ JarOf(calls[s].r, info.name, 1) \in DOMAIN jars
        /\ HasEntry(calls[s].r, info.name, info.path, 3)
        /\ tmpFiles[t.out.val] = "wb-f"

(***************************************************************************)
(* C5: once a resolution of an identifier has been delivered from the      *)
(* archives on a Resolver, every resolution of that identifier started     *)
(* later on that Resolver delivers the same path and tests, opens and      *)
(* extracts no jar.                                                        *)
(***************************************************************************)
C5_CachedPathNoExtraction ==
  \A s \in Slots : \A k \in TasksOf(s) :
    LET t == calls[s].tasks[k]
    IN  t.prior # {} =>
          /\ t.pc # "jar"
          /\ \A n \in 1..Len(t.log) :
               t.log[n].i = t.idx => t.log[n].ev \notin {"access", "open", "extract"}
          /\ t.pc = "done" => (t.out.kind = "path" /\ \A p \in t.prior : t.out.val = p)

\* reached: a second resolution delivered from the cache
C5_Witness ==
  \E s \in Slots : \E k \in TasksOf(s) :
    LET t == calls[s].tasks[k]
    IN  /\ t.prior # {} /\ t.pc = "done" /\ t.src = "cache"
        /\ t.out.val \in t.prior
        /\ t.out.val \in DOMAIN tmpFiles

(***************************************************************************)
(* Vocabulary of the directory properties                                  *)
(***************************************************************************)
\* the profiles whose readable jar has an entry for rel
ProfilesWith(r, name, rel) == {i \in Profiles : HasEntry(r, name, rel, i)}

\* the files below the directory rel in the jar of profile i, each with its
\* name relative to the directory
ChildrenOf(r, name, rel, i) ==
  LET es == jars[JarOf(r, name, i)]
      dir == normalized(rel) \o <<SLASH>>
  IN  { [name |-> DropFirst(es[n].entryName, Len(dir)), data |-> es[n].data] :
          n \in {m \in 1..Len(es) : ~es[m].isDirectory /\ StartsWith(es[m].entryName, dir)} }

\* the bytes of the file child in the earliest profile, in the documented
\* order, whose directory holds a file of that name
EarliestBytes(r, name, rel, child) ==
  LET holders == {i \in ProfilesWith(r, name, rel) :
                    \E c \in ChildrenOf(r, name, rel, i) : c.name = child}
      first == CHOOSE i \in holders : \A j \in holders : i <= j
  IN  (CHOOSE c \in ChildrenOf(r, name, rel, first) : c.name = child).data

(***************************************************************************)
(* C6: a directory identifier delivered from the archives has been merged  *)
(* from every readable profile jar that holds the directory, in profile    *)
(* order, into the one directory tmpRoot/moduleName/relativePath; every    *)
(* file of the directory in any of those jars is materialized below it,    *)
(* and a file name present in several profiles holds the bytes of the      *)
(* earliest profile in the order, whatever file and directory resolutions  *)
(* came before.                                                            *)
(***************************************************************************)
C6_DirectoryMergeEarliestWins ==
  \A s \in Slots : \A k \in TasksOf(s) :
    LET t == calls[s].tasks[k]
        r == calls[s].r
        info == getModuleFileInfo(t.elems[t.idx])
        having == ProfilesWith(r, info.name, info.path)
    IN  (t.pc = "done" /\ t.src = "archive" /\ t.merged # <<>>) =>
          /\ {t.merged[n] : n \in 1..Len(t.merged)} = having
          /\ \A n \in 1..(Len(t.merged) - 1) : t.merged[n] < t.merged[n + 1]
          /\ t.out = Fulfilled(normalized(PathJoin(<<TmpRoot, info.name, info.path>>)))
          /\ \A n \in 1..Len(t.log) :
               (t.log[n].i = t.idx /\ t.log[n].ev = "extract") => t.log[n].p = t.out.val
          /\ \A i \in having : \A c \in ChildrenOf(r, info.name, info.path, i) :
               /\ PathJoin(<<t.out.val, c.name>>) \in DOMAIN tmpFiles
               /\ tmpFiles[PathJoin(<<t.out.val, c.name>>)] =
                    EarliestBytes(r, info.name, info.path, c.name)

\* reached: a directory merged from the -ux and the -rt jar after a file of
\* it had been resolved; the file both hold has the -ux bytes, the file only
\* -rt holds is there too
C6_Witness ==
  \E s \in Slots : \E k \in TasksOf(s) :
    LET t == calls[s].tasks[k]
    IN  /\ t.pc = "done" /\ t.src = "archive" /\ t.merged = <<1, 2>>
        /\ <<calls[s].r, UrlJs, PathJoin(<<t.out.val, <<"f", ".js">> >>)>> \in done
        /\ tmpFiles[PathJoin(<<t.out.val, <<"f", ".js">> >>)] = "ux-f"
        /\ tmpFiles[PathJoin(<<t.out.val, <<"r", ".js">> >>)] = "rt-r"

(***************************************************************************)
(* Vocabulary of the not-found properties                                  *)
(***************************************************************************)
\* the text of a delivered error names the module and the identifier's path
NamesIdentifier(msg, url) ==
  /\ Contains(msg, getModuleFileInfo(url).name)
  /\ Contains(msg, getModuleFileInfo(url).fullPath)

(***************************************************************************)
(* C7 as stated: a recognized, well-formed identifier whose dev-directory  *)
(* attempt fails and whose requested relative path is an entry of no       *)
(* readable profile jar is delivered an error, never a path, and the error *)
(* names the requested module and identifier.                              *)
(***************************************************************************)
C7_NotFoundForRequestedPath ==
  \A s \in Slots :
    LET r == calls[s].r
        info == getModuleFileInfo(UrlOf(s))
    IN  (/\ SingleCall(s)
         /\ ~DevHasSome(r, UrlOf(s))
         /\ ProfilesWith(r, info.name, info.path) = {}
         /\ calls[s].tasks[1].pc = "done") =>
          /\ calls[s].out.kind = "error"
          /\ NamesIdentifier(calls[s].out.val, UrlOf(s))

(***************************************************************************)
(* C7 as amended: a recognized, well-formed identifier whose dev-directory *)
(* attempt fails and for which no readable profile jar has an entry for    *)
(* the relative path, neither as requested nor without its .js, is         *)
(* delivered an error, never a path; the error text holds the module name  *)
(* and the identifier without its prefix; no temp file is written.         *)
(***************************************************************************)
C7_NotFoundForEveryForm ==
  \A s \in Slots :
    LET r == calls[s].r
        info == getModuleFileInfo(UrlOf(s))
        forms == FormsOf(info.path)
    IN  (/\ SingleCall(s)
         /\ ~DevHasSome(r, UrlOf(s))
         /\ \A f \in 1..Len(forms) : ProfilesWith(r, info.name, forms[f]) = {}) =>
          /\ ~LogHas(calls[s].tasks[1], {"extract"})
          /\ calls[s].tasks[1].pc = "done" =>
               /\ calls[s].out.kind = "error"
               /\ NamesIdentifier(calls[s].out.val, UrlOf(s))

\* reached: the error for an identifier whose module has readable jars, none
\* with the entry
C7_Witness ==
  \E s \in Slots :
    /\ SingleCall(s)
    /\ UrlOf(s) = UrlJs
    /\ JarOf(calls[s].r, A, 4) \in DOMAIN jars
    /\ \A f \in 1..2 : ProfilesWith(calls[s].r, A, FormsOf(RelJs)[f]) = {}
    /\ calls[s].tasks[1].pc = "done"
    /\ calls[s].out.kind = "error"
    /\ LogHas(calls[s].tasks[1], {"open"})

(***************************************************************************)
(* Vocabulary of the list and mapping properties                           *)
(***************************************************************************)
\* the identifier, resolved on its own, is delivered a path: it parses and a
\* dev file or a jar entry exists for one of the forms of its relative path
ResolvesAlone(r, url) ==
  LET info == getModuleFileInfo(url)
  IN  /\ info.kind = "info"
      /\ \/ DevHasSome(r, url)
         \/ \E f \in 1..Len(FormsOf(info.path)) :
              ProfilesWith(r, info.name, FormsOf(info.path)[f]) # {}

\* the elements of the list that resolve on their own
Resolvable(r, elems) == {n \in 1..Len(elems) : ResolvesAlone(r, elems[n])}

\* the value of a mapping key (an identifier or a list) can be resolved
KeyResolves(r, item) == Resolvable(r, item.elems) # {}

KeysOf(m) == {m[k].key : k \in 1..Len(m)}

HasExtension(p) == p # <<>> /\ p[Len(p)] \in ExtTokens

(***************************************************************************)
(* C8 as stated: getFilePath of a list, once it has returned, has          *)
(* delivered the path of the lowest-index element that resolves, whatever  *)
(* makes the elements before it fail (not found, unrecognized, malformed); *)
(* when no element resolves it has delivered an error whose text holds all *)
(* elements of the list.                                                   *)
(***************************************************************************)
C8_ListLowestIndexSuccess ==
  \A s \in Slots :
    LET c == calls[s]
        elems == c.arg[1].elems
        ok == Resolvable(c.r, elems)
    IN  (c.op = "getFilePath" /\ c.arg[1].list /\ Complete(c)) =>
          IF ok # {}
          THEN /\ c.out.kind = "path"
               /\ c.tasks[1].idx = CHOOSE n \in ok : \A m \in ok : n <= m
          ELSE /\ c.out.kind = "error"
               /\ Contains(c.out.val, ArrJoin(elems))

(***************************************************************************)
(* C9 as stated: getRequireJsPaths, once it has returned and its           *)
(* resolutions have ended, has delivered either a mapping with exactly the *)
(* keys of the input, each path without its extension, or an error and no  *)
(* mapping; it has delivered the error whenever some key cannot be         *)
(* resolved.                                                               *)
(***************************************************************************)
C9_MappingOrError ==
  \A s \in Slots :
    LET c == calls[s]
    IN  (c.op = "getRequireJsPaths" /\ Complete(c)) =>
          IF \A k \in 1..Len(c.arg) : KeyResolves(c.r, c.arg[k])
          THEN /\ c.out.kind = "paths"
               /\ DOMAIN c.result = KeysOf(c.arg)
               /\ \A key \in DOMAIN c.result : ~HasExtension(c.result[key])
          ELSE IsRejection(c.out)

(***************************************************************************)
(* C10 as stated: the error getRequireJsPaths delivers holds a key of the  *)
(* input mapping whose resolution failed.                                  *)
(***************************************************************************)
C10_ErrorNamesKey ==
  \A s \in Slots :
    LET c == calls[s]
    IN  (c.op = "getRequireJsPaths" /\ IsRejection(c.out)) =>
          \E k \in 1..Len(c.tasks) :
            /\ c.tasks[k].pc = "done"
            /\ c.tasks[k].out.kind # "path"
            /\ Contains(c.out.val, <<c.arg[k].key>>)

\* the error the resolution of one mapping value ends with, from the value
\* alone: the not-found error of an identifier, the error of a list that
\* names its elements, the string thrown for a malformed later element of a
\* list, or the TypeError raised on the undefined path of an unrecognized
\* identifier
ErrorOfValue(t) ==
  LET url == t.elems[t.idx]
      mp == getModulePath(url)
  IN  IF t.out.kind = "undefined" THEN RejectedTypeError
      ELSE IF t.out.kind = "string"
      THEN RejectedString(<<"could not determine module name: ">> \o mp.s)
      ELSE IF t.list
      THEN Rejected(<<"no valid entries in array ">> \o ArrJoin(t.elems))
      ELSE Rejected(<<"could not find ">> \o mp.s \o <<" in any JAR module">>)

(***************************************************************************)
(* C10 as amended: the error getRequireJsPaths delivers is the error of    *)
(* one failed resolution, unchanged: its text is determined by the value   *)
(* mapped (the identifier's module path, or all elements of the list), not *)
(* by the key.                                                             *)
(***************************************************************************)
C10_ErrorOfFailedValue ==
  \A s \in Slots :
    LET c == calls[s]
    IN  (c.op = "getRequireJsPaths" /\ IsRejection(c.out)) =>
          \E k \in 1..Len(c.tasks) :
            /\ c.tasks[k].pc = "done"
            /\ c.tasks[k].out.kind # "path"
            /\ c.out = ErrorOfValue(c.tasks[k])

\* reached: a mapping of two keys, the first resolved, the error that of the
\* second key's identifier
C10_Witness ==
  \E s \in Slots :
    LET c == calls[s]
    IN  /\ c.op = "getRequireJsPaths" /\ Len(c.tasks) = 2
        /\ c.tasks[1].pc = "done" /\ c.tasks[1].out.kind = "path"
        /\ c.tasks[2].pc = "done"
        /\ c.out.kind = "error"
        /\ Contains(c.out.val, getModuleFileInfo(c.arg[2].elems[1]).fullPath)

(***************************************************************************)
(* Vocabulary of the parsing properties                                    *)
(***************************************************************************)
\* the three documented prefixes, as written in the documentation
UrlPrefix == <<"/", "module", "/">>
OrdPrefix == <<"module", ":", "/", "/">>
RequireJsPrefix == <<"nmodule", "/">>

HasPrefix(url) ==
  StartsWith(url, UrlPrefix) \/ StartsWith(url, OrdPrefix) \/ StartsWith(url, RequireJsPrefix)

\* what follows the prefix of a recognized identifier
RemainderOf(url) ==
  IF StartsWith(url, UrlPrefix) THEN DropFirst(url, Len(UrlPrefix))
  ELSE IF StartsWith(url, OrdPrefix) THEN DropFirst(url, Len(OrdPrefix))
  ELSE DropFirst(url, Len(RequireJsPrefix))

\* a getFilePath call for one identifier, whatever it is
PlainCall(s) == calls[s].op = "getFilePath" /\ ~calls[s].arg[1].list

C12_UnrecognizedParsesEmpty ==
  \A s \in Slots :
    (PlainCall(s) /\ ~HasPrefix(UrlOf(s))) =>
      /\ calls[s].out.kind # "thrown"
      /\ calls[s].tasks # <<>>
      /\ calls[s].tasks[1].info = [kind |-> "empty"]
      /\ Complete(calls[s]) => calls[s].out = [kind |-> "undefined", val |-> <<>>]

\* reached: module:/a/rc/f.js called back undefined
C12_Witness ==
  \E s \in Slots :
    /\ PlainCall(s) /\ UrlOf(s) = Unrecognized
    /\ calls[s].tasks # <<>> /\ calls[s].tasks[1].pc = "done"
    /\ calls[s].out = [kind |-> "undefined", val |-> <<>>]

(***************************************************************************)
(* C13 as stated: getFilePath of a list whose first element has none of    *)
(* the three prefixes and whose second element resolves delivers the       *)
(* second element's path.                                                  *)
(***************************************************************************)
C13_UnrecognizedElementSkipped ==
  \A s \in Slots :
    LET c == calls[s]
        elems == c.arg[1].elems
    IN  (/\ c.op = "getFilePath" /\ c.arg[1].list /\ Complete(c)
         /\ Len(elems) >= 2
         /\ ~HasPrefix(elems[1])
         /\ ResolvesAlone(c.r, elems[2])) =>
          /\ c.tasks # <<>>
          /\ c.tasks[1].idx = 2
          /\ c.out.kind = "path"

\* the remainder of a recognized identifier has no separator, or has it first
SeparatorMissingOrFirst(rem) ==
  \/ rem = <<>>
  \/ rem[1] = SLASH
  \/ \A i \in 1..Len(rem) : rem[i] # SLASH

IsMalformed(url) == HasPrefix(url) /\ SeparatorMissingOrFirst(RemainderOf(url))

(***************************************************************************)
(* C14: for an identifier with a recognized prefix whose remainder has no  *)
(* separator or has it at position 0 (the empty remainder too) the parse   *)
(* raises an error whose text holds the remainder, and no result with a    *)
(* module name or a relative path comes out of it: no resolution is        *)
(* started for it, alone or as the element of a list.                      *)
(***************************************************************************)
C14_MalformedFailsParsing ==
  \A s \in Slots :
    LET c == calls[s]
    IN  /\ (PlainCall(s) /\ IsMalformed(UrlOf(s))) =>
             /\ c.out.kind = "thrown"
             /\ c.tasks = <<>>
             /\ Contains(c.out.val, <<"could not determine module name: ">>)
             /\ Contains(c.out.val, RemainderOf(UrlOf(s)))
        /\ \A k \in TasksOf(s) :
             LET t == c.tasks[k]
             IN  (t.idx <= Len(t.elems) /\ IsMalformed(t.elems[t.idx])) =>
                   /\ t.info.kind = "throw"
                   /\ t.pc = "done"
                   /\ t.out.kind = "string"
                   /\ Contains(t.out.val, RemainderOf(t.elems[t.idx]))
                   /\ \A n \in 1..Len(t.log) : t.log[n].i # t.idx

\* reached: the parse raised for a remainder that begins with the separator,
\* and for a malformed element met in a list
C14_Witness ==
  /\ \E s \in Slots :
       /\ PlainCall(s) /\ UrlOf(s) = MalformedAt0
       /\ calls[s].out.kind = "thrown"
       /\ Contains(calls[s].out.val, <<"/", "rc", "/", "f">>)
  /\ \E s \in Slots : calls[s].op = "idle"

(***************************************************************************)
(* C15 as stated: no failure of getFilePath or getRequireJsPaths leaves    *)
(* the call as an exception; once the resolutions of a call have ended the *)
(* callback has been invoked, with an error when the call failed.          *)
(***************************************************************************)
C15_FailuresReachCallback ==
  \A s \in Slots :
    calls[s].op # "idle" =>
      /\ calls[s].out.kind # "thrown"
      /\ Complete(calls[s]) => calls[s].out.kind # "pending"

\* the element a resolution is at, when it has one that parsed
ParsedTasks(s) ==
  { k \in TasksOf(s) :
      /\ calls[s].tasks[k].idx <= Len(calls[s].tasks[k].elems)
      /\ calls[s].tasks[k].info.kind = "info" }

ElementOf(t) == t.elems[t.idx]

(***************************************************************************)
(* C16 as stated: the parsed path of an nmodule/ identifier is its         *)
(* remainder with .js appended when the remainder carries no extension and *)
(* the remainder itself when it carries one; the remainder itself for the  *)
(* other two forms.                                                        *)
(***************************************************************************)
C16_ExtensionAppendedIfMissing ==
  \A s \in Slots : \A k \in ParsedTasks(s) :
    LET t == calls[s].tasks[k]
        rem == RemainderOf(ElementOf(t))
    IN  IF StartsWith(ElementOf(t), RequireJsPrefix)
        THEN t.info.fullPath = (IF HasExtension(rem) THEN rem ELSE rem \o <<".js">>)
        ELSE t.info.fullPath = rem

(***************************************************************************)
(* C16 amended: the parsed path of an nmodule/ identifier is its remainder *)
(* with .js appended, whether or not the remainder carries an extension    *)
(* already; for the other two forms it is the remainder itself.  Module    *)
(* name and relative path are the two sides of its first separator.        *)
(***************************************************************************)
C16_ExtensionAlwaysAppended ==
  \A s \in Slots : \A k \in ParsedTasks(s) :
    LET t == calls[s].tasks[k]
        rem == RemainderOf(ElementOf(t))
    IN  /\ IF StartsWith(ElementOf(t), RequireJsPrefix)
           THEN t.info.fullPath = rem \o <<".js">>
           ELSE t.info.fullPath = rem
        /\ t.info.name \o <<SLASH>> \o t.info.path = t.info.fullPath

\* reached: an nmodule/ identifier that carries .js was parsed to a path
\* with a second .js and resolved under the stripped form
C16_Witness ==
  \E s \in Slots : \E k \in ParsedTasks(s) :
    LET t == calls[s].tasks[k]
    IN  /\ ElementOf(t) = NmodJs
        /\ EndsWith(t.info.path, <<".js", ".js">>)
        /\ t.pc = "done"
        /\ t.out.kind = "path"

(***************************************************************************)
(* C17: every Resolver has a cache of its own.  In every step the set of   *)
(* identifiers cached for a Resolver only grows; the cache of a Resolver   *)
(* changes only in a step of the archive attempt of a resolution running   *)
(* on that Resolver; and a resolution is answered from the cache only when *)
(* the cache of its own Resolver holds its identifier, with the path       *)
(* stored there.                                                           *)
(***************************************************************************)
C17_CacheOwnedAndGrowing ==
  [][ /\ \A q \in Resolvers :
           /\ DOMAIN filePathCache[q] \subseteq DOMAIN filePathCache'[q]
           /\ filePathCache'[q] # filePathCache[q] =>
                \E s \in Slots : \E k \in TasksOf(s) :
                  /\ calls[s].r = q
                  /\ calls[s].tasks[k].pc = "jar"
                  /\ calls'[s].tasks[k] # calls[s].tasks[k]
                  /\ DOMAIN filePathCache'[q] \ DOMAIN filePathCache[q]
                       \subseteq {calls[s].tasks[k].info.fullPath}
      /\ \A s \in Slots : \A k \in TasksOf(s) :
           LET t == calls[s].tasks[k]
           IN  (/\ calls'[s].op # "idle"
                /\ k <= Len(calls'[s].tasks)
                /\ t.src # "cache"
                /\ calls'[s].tasks[k].src = "cache") =>
                  /\ t.info.fullPath \in DOMAIN filePathCache[calls[s].r]
                  /\ calls'[s].tasks[k].out.val
                       = filePathCache[calls[s].r][t.info.fullPath]
    ]_vars

\* reached: one Resolver has cached an identifier, and a resolution of the
\* same identifier on the other Resolver, whose cache is empty, has gone on
\* to the archives
C17_Witness ==
  \E q1, q2 \in Resolvers : \E s \in Slots : \E k \in TasksOf(s) :
    /\ q1 # q2
    /\ DOMAIN filePathCache[q2] = {}
    /\ calls[s].r = q2
    /\ calls[s].tasks[k].pc = "jar"
    /\ calls[s].tasks[k].info.fullPath \in DOMAIN filePathCache[q1]

(***************************************************************************)
(* Overlapping calls: the caller keeps MaxInFlight calls in flight         *)
(***************************************************************************)
OverlapFileSystems ==
  { [rs |-> Installed, dev |-> Dev0, jars |-> Jars2],
    [rs |-> Registered, dev |-> Dev2, jars |-> Jars1] }

OverlapArgs == { Single(UrlJs), Single(OrdDir), List(<<OrdTest, UrlJs>>) }

OverlapMappings == { <<Keyed("k1", Single(UrlJs)), Keyed("k2", Single(OrdDir))>> }

InitOverlap ==
  /\ \E fs \in OverlapFileSystems :
       /\ made = [r \in Resolvers |-> Make(fs.rs.how[r], fs.rs.home[r])]
       /\ reg = [r \in Resolvers |-> Make(fs.rs.how[r], fs.rs.home[r]).reg]
       /\ niagaraHome = fs.rs.home
       /\ devFiles = fs.dev
       /\ jars = fs.jars
  /\ limit = MaxInFlight
  /\ filePathCache = [r \in Resolvers |-> <<>>]
  /\ tmpDir = <<>>
  /\ mkdirCalls = 0
  /\ tmpFiles = <<>>
  /\ calls = [s \in Slots |-> Idle]
  /\ done = {}

NextOverlap ==
  \/ \E s \in Slots, r \in Resolvers, a \in OverlapArgs : getFilePath(s, r, a)
  \/ \E s \in Slots, r \in Resolvers, m \in OverlapMappings : getRequireJsPaths(s, r, m)
  \/ \E s \in Slots, k \in 1..2 : TaskDev(s, k)
  \/ \E s \in Slots, k \in 1..2 : TaskJar(s, k)

SpecOverlap == InitOverlap /\ [][NextOverlap]_vars

\* the least member of a non-empty set of numbers
Least(S) == CHOOSE n \in S : \A m \in S : n <= m

\* what the resolution of one parsed identifier delivers on Resolver r when
\* nothing else runs: the first readable dev path, else the entry of the
\* first form and first profile jar that hold one, else the error
AloneParsed(r, url) ==
  LET info == getModuleFileInfo(url)
      forms == FormsOf(info.path)
  IN  IF DevHasSome(r, url)
      THEN LET f == Least({g \in 1..Len(forms) :
                             \E i \in Profiles : DevCandidate(r, url, forms[g], i) \in devFiles})
               i == Least({j \in Profiles : DevCandidate(r, url, forms[f], j) \in devFiles})
           IN  Fulfilled(DevCandidate(r, url, forms[f], i))
      ELSE LET hits == {g \in 1..Len(forms) : ProfilesWith(r, info.name, forms[g]) # {}}
           IN  IF hits = {}
               THEN Rejected(<<"could not find ">> \o info.fullPath \o <<" in any JAR module">>)
               ELSE LET f == Least(hits)
                        e == EntryOf(r, info.name, forms[f],
                                     Least(ProfilesWith(r, info.name, forms[f])))
                    IN  IF e.isDirectory
                        THEN Fulfilled(normalized(PathJoin(<<TmpRoot, info.name, e.entryName>>)))
                        ELSE Fulfilled(PathJoin(<<TmpRoot, info.name, e.entryName>>))

AloneElement(r, url) ==
  LET info == getModuleFileInfo(url)
  IN  IF info.kind = "empty" THEN FulfilledUndefined
      ELSE IF info.kind = "throw" THEN RejectedString(info.msg)
      ELSE AloneParsed(r, url)

\* what the resolution of an identifier or of a list delivers when run alone
RECURSIVE AloneFrom(_, _, _, _)
AloneFrom(r, elems, n, list) ==
  IF n > Len(elems)
  THEN Rejected(<<"no valid entries in array ">> \o ArrJoin(elems))
  ELSE LET o == AloneElement(r, elems[n])
       IN  IF list /\ o.kind = "error" THEN AloneFrom(r, elems, n + 1, list) ELSE o

AloneOutcome(r, item) == AloneFrom(r, item.elems, 1, item.list)

(***************************************************************************)
(* C18: with calls overlapping in every order on the Resolvers of an       *)
(* unchanging file system, every resolution that has ended (a getFilePath  *)
(* call's, or that of one key of getRequireJsPaths) has delivered the path *)
(* or the failure it delivers when it runs alone, and getFilePath has      *)
(* handed just that to its callback.                                       *)
(***************************************************************************)
C18_InterleavingKeepsOutcome ==
  \A s \in Slots : \A k \in TasksOf(s) :
    LET c == calls[s]
        t == c.tasks[k]
    IN  t.pc = "done" =>
          /\ t.out = AloneOutcome(c.r, c.arg[k])
          /\ c.op = "getFilePath" => c.out = AloneOutcome(c.r, c.arg[k])

\* reached: two calls on one Resolver for the same identifier overlapped so
\* that both missed the cache and both extracted the entry, and a third
\* resolution ran beside them as a key of getRequireJsPaths
C18_Witness ==
  \E s1, s2 \in Slots :
    /\ s1 # s2
    /\ calls[s1].r = calls[s2].r
    /\ calls[s1].op = "getFilePath" /\ calls[s2].op = "getRequireJsPaths"
    /\ Len(calls[s2].tasks) = 2
    /\ \E k \in TasksOf(s2) :
         LET t1 == calls[s1].tasks[1]
             t2 == calls[s2].tasks[k]
         IN  /\ t1.pc = "done" /\ t2.pc = "done"
             /\ t1.elems = t2.elems
             /\ t1.src = "archive" /\ t2.src = "archive"
             /\ LogHas(t1, {"extract"}) /\ LogHas(t2, {"extract"})
             /\ t1.out = t2.out
             /\ t1.out.kind = "path"

\* no jar of the module, under any profile, is readable below the install root
NoArchive(r, name) == \A i \in Profiles : JarOf(r, name, i) \notin DOMAIN jars

\* why the resolution of a parsed identifier that neither the dev directories
\* nor the jars hold has failed
FailureCondition(r, url) ==
  LET info == getModuleFileInfo(url)
  IN  IF NoArchive(r, info.name)
      THEN IF IsRegistered(r, url) THEN "archive missing" ELSE "module absent"
      ELSE "entry missing"

\* a resolution of one identifier that has ended in an error after the dev
\* directories and the jars
FailedLookup(s, k) ==
  LET t == calls[s].tasks[k]
  IN  /\ ~t.list
      /\ t.info.kind = "info"
      /\ t.pc = "done"
      /\ t.out.kind = "error"

\* an error text without the module path it names
ErrorShape(t) ==
  LET n == Len(t.info.fullPath)
      at == CHOOSE i \in 0..Len(t.out.val) :
              \/ i > 0 /\ i + n - 1 <= Len(t.out.val)
                       /\ SubSeq(t.out.val, i, i + n - 1) = t.info.fullPath
              \/ i = 0 /\ ~Contains(t.out.val, t.info.fullPath)
  IN  IF at = 0 THEN t.out.val
      ELSE SubSeq(t.out.val, 1, at - 1) \o SubSeq(t.out.val, at + n, Len(t.out.val))

(***************************************************************************)
(* C19 as stated: two resolutions that failed for different reasons (the   *)
(* module in neither registry nor install root, the jar missing or         *)
(* unreadable, the jar readable without the entry) have errors that differ *)
(* in more than the identifier they name.                                  *)
(***************************************************************************)
C19_ErrorsDistinguishConditions ==
  \A s1, s2 \in Slots : \A k1 \in TasksOf(s1) : \A k2 \in TasksOf(s2) :
    (/\ FailedLookup(s1, k1) /\ FailedLookup(s2, k2)
     /\ FailureCondition(calls[s1].r, ElementOf(calls[s1].tasks[k1]))
          # FailureCondition(calls[s2].r, ElementOf(calls[s2].tasks[k2]))) =>
      ErrorShape(calls[s1].tasks[k1]) # ErrorShape(calls[s2].tasks[k2])

(***************************************************************************)
(* C19 amended: the error of a failed resolution does not tell the failure *)
(* conditions apart: whether the module is in neither registry nor install *)
(* root, its jar is missing or unreadable, or the jar is readable without  *)
(* the entry, the error is 'could not find <module path> in any JAR        *)
(* module'; it names the identifier, no jar and no cause, and getFilePath  *)
(* hands it to the callback unchanged.                                     *)
(***************************************************************************)
C19_OneErrorForEveryCondition ==
  \A s \in Slots : \A k \in TasksOf(s) :
    LET c == calls[s]
        t == c.tasks[k]
    IN  FailedLookup(s, k) =>
          /\ FailureCondition(c.r, ElementOf(t))
               \in {"module absent", "archive missing", "entry missing"}
          /\ t.out = Rejected(<<"could not find ">> \o t.info.fullPath
                                \o <<" in any JAR module">>)
          /\ ~Contains(t.out.val, <<".jar">>)
          /\ c.op = "getFilePath" => c.out = t.out

\* reached: in one call a resolution has failed for a module that is nowhere
\* and another for an entry its readable jar lacks, with errors of one shape
C19_Witness ==
  \E s \in Slots : \E k1, k2 \in TasksOf(s) :
    /\ FailedLookup(s, k1) /\ FailedLookup(s, k2)
    /\ FailureCondition(calls[s].r, ElementOf(calls[s].tasks[k1])) = "module absent"
    /\ FailureCondition(calls[s].r, ElementOf(calls[s].tasks[k2])) = "entry missing"
    /\ ErrorShape(calls[s].tasks[k1]) = ErrorShape(calls[s].tasks[k2])
    /\ calls[s].tasks[k1].out # calls[s].tasks[k2].out

\* Resolver r was made by fromFile from a file that could not be loaded or
\* parsed, with an install root that could be determined
MadeFromBadFile(r) ==
  /\ made[r].op = "fromFile"
  /\ made[r].src.state \in {"missing", "unreadable", "unparsable"}
  /\ niagaraHome[r] # Undefined

(***************************************************************************)
(* C20: fromFile of a configuration file that is missing, unreadable or    *)
(* unparsable, with a determinable install root, has called back with no   *)
(* error and a Resolver whose registry is empty; every resolution on that  *)
(* Resolver finds no module in the registry, probes no dev directory,      *)
(* delivers no dev path, and goes on to the cache and the jars.            *)
(***************************************************************************)
C20_BadFileGivesEmptyRegistry ==
  \A r \in Resolvers :
    MadeFromBadFile(r) =>
      /\ made[r].err = NoError
      /\ made[r].resolver
      /\ DOMAIN reg[r] = {}
      /\ \A s \in Slots : \A k \in TasksOf(s) :
           LET t == calls[s].tasks[k]
           IN  calls[s].r = r =>
                 /\ ~LogHas(t, {"probe"})
                 /\ t.src # "dev"
                 /\ (t.info.kind = "info" /\ t.pc \in {"jar", "done"}) =>
                      LogHas(t, {"cache"})

\* reached: a Resolver made from a file that is missing or does not parse
\* has looked a module up in its registry in vain and delivered a path from
\* a jar
C20_Witness ==
  \E r \in Resolvers : \E s \in Slots :
    /\ MadeFromBadFile(r)
    /\ made[r].src.state \in {"missing", "unparsable"}
    /\ calls[s].r = r
    /\ calls[s].op = "getFilePath"
    /\ Complete(calls[s])
    /\ calls[s].tasks # <<>>
    /\ calls[s].tasks[1].src = "archive"
    /\ LogHas(calls[s].tasks[1], {"reg"})
    /\ calls[s].out.kind = "path"

(***************************************************************************)
(* C21: when neither the config argument nor the environment gives the     *)
(* install root, fromFile has called back with an error, has made no       *)
(* Resolver and has not read the configuration file, whether the file was  *)
(* named or left to the default; getDefaultFilePath returns null for that  *)
(* install root; and no call is ever made on a Resolver for it.            *)
(***************************************************************************)
C21_NoHomeNoResolver ==
  \A r \in Resolvers :
    (made[r].op = "fromFile" /\ niagaraHome[r] = Undefined) =>
      /\ made[r].err # NoError
      /\ made[r].err \in {<<"niagara_home could not be determined">>,
                          <<"file name must be provided">>}
      /\ ~made[r].resolver
      /\ ~made[r].read
      /\ getDefaultFilePath(niagaraHome[r]) = Null
      /\ \A s \in Slots : calls[s].op # "idle" => calls[s].r # r

\* reached: fromFile of a named, well-formed file has failed for want of an
\* install root while the Resolver beside it has answered a call
C21_Witness ==
  \E r \in Resolvers : \E s \in Slots :
    /\ made[r].op = "fromFile"
    /\ made[r].src.state = "ok"
    /\ niagaraHome[r] = Undefined
    /\ made[r].err = <<"niagara_home could not be determined">>
    /\ calls[s].op = "getFilePath"
    /\ Complete(calls[s])
    /\ calls[s].out.kind = "path"

\* the parse of a well-formed identifier with a recognized prefix, from its
\* text alone: the remainder (with .js for the nmodule/ form) cut at its
\* first separator
ParseOf(url) ==
  LET rem == IF StartsWith(url, RequireJsPrefix)
             THEN RemainderOf(url) \o <<".js">> ELSE RemainderOf(url)
      cut == CHOOSE i \in 1..Len(rem) : rem[i] = SLASH /\ \A j \in 1..(i - 1) : rem[j] # SLASH
  IN  [kind |-> "info", fullPath |-> rem,
       name |-> SubSeq(rem, 1, cut - 1), path |-> SubSeq(rem, cut + 1, Len(rem))]

\* the resolutions that stand at a well-formed identifier with a recognized
\* prefix
AtWellFormed(s) ==
  { k \in TasksOf(s) :
      /\ calls[s].tasks[k].idx <= Len(calls[s].tasks[k].elems)
      /\ HasPrefix(ElementOf(calls[s].tasks[k]))
      /\ ~IsMalformed(ElementOf(calls[s].tasks[k])) }

\* a step in which identifiers are parsed: a call starts, or a list moves on
\* to its next element
ParsingStep ==
  \E s \in Slots :
    /\ calls'[s] # calls[s]
    /\ calls'[s].op # "idle"
    /\ \/ \A k \in 1..Len(calls'[s].tasks) :
            calls'[s].tasks[k].log = <<>> /\ calls'[s].tasks[k].pc = "dev"
       \/ \E k \in TasksOf(s) :
            /\ k <= Len(calls'[s].tasks)
            /\ calls'[s].tasks[k].idx # calls[s].tasks[k].idx

ArchiveStarted(t, i) ==
  \E n \in 1..Len(t.log) : t.log[n].i = i /\ t.log[n].ev \in ArchiveEvents

\* the dev-directory attempt for element i of resolution t is over
DevAttemptOver(t, i) == i < t.idx \/ (i = t.idx /\ t.pc \in {"jar", "done"})

\* the dev-directory attempt for url fails on Resolver r: the identifier
\* parses and no form of its path is readable below a registered directory
DevFails(r, url) == getModuleFileInfo(url).kind = "info" /\ ~DevHasSome(r, url)

(***************************************************************************)
(* C23: for every identifier a resolution has come to, the archive attempt *)
(* (cache, then jars) has been started only if the dev-directory attempt   *)
(* for it fails, and has been started whenever that attempt is over and    *)
(* has failed; a registered module whose path no profile directory holds   *)
(* readable goes on to the archives like an unregistered one, and ends     *)
(* with a path when a jar holds the entry.                                 *)
(***************************************************************************)
C23_ArchiveIffDevFailed ==
  \A s \in Slots : \A k \in TasksOf(s) :
    LET t == calls[s].tasks[k]
        r == calls[s].r
    IN  \A i \in 1..Len(t.elems) :
          /\ ArchiveStarted(t, i) => i <= t.idx /\ DevFails(r, t.elems[i])
          /\ (i <= t.idx /\ DevAttemptOver(t, i) /\ DevFails(r, t.elems[i])) =>
               ArchiveStarted(t, i)
          /\ (/\ i = t.idx /\ t.pc = "done" /\ ~t.list
              /\ DevFails(r, t.elems[i])
              /\ IsRegistered(r, t.elems[i])
              /\ \E f \in 1..Len(FormsOf(t.info.path)) :
                   ProfilesWith(r, t.info.name, FormsOf(t.info.path)[f]) # {}) =>
               t.out.kind = "path" /\ t.src \in {"archive", "cache"}

\* reached: a module that is registered, with none of its profile
\* directories holding the path, has been delivered from a jar
C23_Witness ==
  \E s \in Slots : \E k \in ParsedTasks(s) :
    LET t == calls[s].tasks[k]
        r == calls[s].r
    IN  /\ t.pc = "done" /\ ~t.list
        /\ IsRegistered(r, ElementOf(t))
        /\ DevFails(r, ElementOf(t))
        /\ LogHas(t, {"probe"})
        /\ t.src = "archive"
        /\ t.out.kind = "path"

\* the positions in the log of resolution t at which the path p was tested
\* for readability for element i
ProbesOf(t, i, p) ==
  {n \in 1..Len(t.log) : t.log[n].i = i /\ t.log[n].ev = "probe" /\ t.log[n].p = p}

(***************************************************************************)
(* C24: in the dev-directory attempt for a relative path ending in .js,    *)
(* the path as requested is tested in a profile directory only after the   *)
(* path without .js has been tested, and found unreadable, in all five     *)
(* profile directories; so when the path without .js is readable in any    *)
(* profile, the last included, the attempt delivers it in the first such   *)
(* profile, whatever profile holds the path as requested.                  *)
(***************************************************************************)
C24_StrippedFormAcrossProfilesFirst ==
  \A s \in Slots : \A k \in TasksOf(s) :
    LET t == calls[s].tasks[k]
        r == calls[s].r
    IN  \A i \in 1..Len(t.elems) :
          LET url == t.elems[i]
              info == getModuleFileInfo(url)
          IN  (info.kind = "info" /\ EndsWith(info.path, <<".js">>) /\ IsRegistered(r, url)) =>
                LET stripped == SubSeq(info.path, 1, Len(info.path) - 1)
                IN  /\ \A j \in Profiles :
                         \A n \in ProbesOf(t, i, DevCandidate(r, url, info.path, j)) :
                           \A h \in Profiles :
                             /\ DevCandidate(r, url, stripped, h) \notin devFiles
                             /\ \E m \in ProbesOf(t, i, DevCandidate(r, url, stripped, h)) : m < n
                    /\ (/\ i <= t.idx /\ DevAttemptOver(t, i)
                        /\ \E h \in Profiles : DevCandidate(r, url, stripped, h) \in devFiles) =>
                         /\ t.idx = i /\ t.pc = "done" /\ t.src = "dev"
                         /\ \E h \in Profiles :
                              /\ t.out = Fulfilled(DevCandidate(r, url, stripped, h))
                              /\ \A g \in 1..(h - 1) :
                                   DevCandidate(r, url, stripped, g) \notin devFiles

\* reached: the path without .js, readable in the last profile only, has
\* been delivered although the path with .js is readable in the first
C24_Witness ==
  \E s \in Slots : \E k \in ParsedTasks(s) :
    LET t == calls[s].tasks[k]
        r == calls[s].r
        url == ElementOf(t)
    IN  /\ t.pc = "done" /\ t.src = "dev"
        /\ EndsWith(t.info.path, <<".js">>)
        /\ DevCandidate(r, url, t.info.path, 1) \in devFiles
        /\ t.out.val = DevCandidate(r, url, SubSeq(t.info.path, 1, Len(t.info.path) - 1),
                                    Len(ProfileOrder))
        /\ Len(ProfileOrder) = 5

\* the positions in the log of resolution t of the events evs for element i
EventsOf(t, i, evs) == {n \in 1..Len(t.log) : t.log[n].i = i /\ t.log[n].ev \in evs}

(***************************************************************************)
(* C25: for an identifier whose canonical module name the registry does    *)
(* not hold, the dev-directory attempt consists of the registry lookup     *)
(* alone: no profile path is tested for readability, and the event that    *)
(* follows the lookup is the start of the archive attempt.                 *)
(***************************************************************************)
C25_UnregisteredNoProfileSearch ==
  \A s \in Slots : \A k \in TasksOf(s) :
    LET t == calls[s].tasks[k]
        r == calls[s].r
    IN  \A i \in 1..Len(t.elems) :
          (/\ getModuleFileInfo(t.elems[i]).kind = "info"
           /\ ~IsRegistered(r, t.elems[i])) =>
            /\ EventsOf(t, i, {"probe"}) = {}
            /\ (i <= t.idx /\ DevAttemptOver(t, i)) =>
                 \E n \in EventsOf(t, i, {"reg"}) :
                   /\ t.log[n].p = CanonicalName(getModuleFileInfo(t.elems[i]).name)
                   /\ \A m \in EventsOf(t, i, {"reg"}) : m = n
                   /\ n + 1 \in EventsOf(t, i, {"cache"})
                   /\ \A m \in EventsOf(t, i, ArchiveEvents) : m > n

\* reached: on a Resolver whose properties parsed to a registry without the
\* module, a resolution went from the lookup to the jars and was delivered
C25_Witness ==
  \E s \in Slots : \E k \in ParsedTasks(s) :
    LET t == calls[s].tasks[k]
        r == calls[s].r
    IN  /\ made[r].src.state = "ok"
        /\ ~IsRegistered(r, ElementOf(t))
        /\ t.pc = "done" /\ t.src = "archive"
        /\ t.log[1].ev = "reg" /\ t.log[2].ev = "cache" /\ t.log[3].ev = "access"

\* resolution k of the call in slot s takes this step
TaskSteps(s, k) ==
  /\ ~Complete(calls[s])
  /\ calls'[s].tasks[k] # calls[s].tasks[k]

\* the temp paths that an extraction for the identifier url may write
WrittenFor(url, p) ==
  LET info == getModuleFileInfo(url)
  IN  \E f \in 1..Len(FormsOf(info.path)) :
        StartsWith(p, normalized(PathJoin(<<TmpRoot, info.name, FormsOf(info.path)[f]>>)))

(***************************************************************************)
(* C26: the resolution of a list has left behind only elements that        *)
(* failed, has parsed, looked up and extracted nothing for the elements    *)
(* after the one it is at, and takes no step once it has ended; a step of  *)
(* it adds to the caches no entry and to the temp directory no file but    *)
(* for the element it is at.  So after an element has been delivered the   *)
(* later elements leave no trace of the call.                              *)
(***************************************************************************)
C26_ListStopsAtFirstSuccess ==
  [][ \A s \in Slots : \A k \in TasksOf(s) :
        LET t == calls[s].tasks[k]
            r == calls[s].r
        IN  t.list =>
              /\ \A i \in 1..Len(t.elems) :
                   i < t.idx => AloneElement(r, t.elems[i]).kind = "error"
              /\ \A n \in 1..Len(t.log) : t.log[n].i <= t.idx
              /\ (t.idx <= Len(t.elems) /\ t.info.kind = "info") =>
                   t.info = getModuleFileInfo(t.elems[t.idx])
              /\ t.pc = "done" => ~TaskSteps(s, k)
              /\ TaskSteps(s, k) =>
                   /\ \A q \in Resolvers :
                        DOMAIN filePathCache'[q] \ DOMAIN filePathCache[q]
                          \subseteq (IF t.info.kind = "info" THEN {t.info.fullPath} ELSE {})
                   /\ \A p \in DOMAIN tmpFiles' \ DOMAIN tmpFiles :
                        WrittenFor(t.elems[t.idx], p)
    ]_vars

\* reached: a list has been delivered its first element from a jar while
\* its second element, which a jar holds too, is neither in the cache nor
\* in the temp directory
C26_Witness ==
  \E s \in Slots :
    /\ calls[s].op = "getFilePath" /\ calls[s].arg[1].list
    /\ Complete(calls[s])
    /\ calls[s].tasks # <<>>
    /\ LET t == calls[s].tasks[1]
           r == calls[s].r
       IN  /\ t.idx = 1 /\ Len(t.elems) = 2
           /\ t.src = "archive" /\ t.out.kind = "path"
           /\ AloneElement(r, t.elems[2]).kind = "path"
           /\ AloneElement(r, t.elems[2]).val \notin DOMAIN tmpFiles
           /\ getModuleFileInfo(t.elems[2]).fullPath \notin DOMAIN filePathCache[r]
           /\ DOMAIN filePathCache[r] = {t.info.fullPath}

(***************************************************************************)
(* C27: the extractor opens a jar only right after it has tested that jar  *)
(* for readability and found it readable; a jar that is missing or         *)
(* unreadable is tested and then neither opened nor scanned, and the       *)
(* extraction from it is rejected with 'cannot read zip file at <jar>'.    *)
(***************************************************************************)
C27_ReadableBeforeOpen ==
  \A s \in Slots : \A k \in TasksOf(s) :
    LET t == calls[s].tasks[k]
    IN  \A n \in 1..Len(t.log) :
          /\ t.log[n].ev = "open" =>
               /\ n > 1
               /\ t.log[n - 1] = Ev("access", t.log[n].i, t.log[n].p)
               /\ t.log[n].p \in DOMAIN jars
          /\ (t.log[n].ev = "access" /\ t.log[n].p \notin DOMAIN jars) =>
               /\ n < Len(t.log)
               /\ t.log[n + 1] = Ev("reject", t.log[n].i,
                                    <<"cannot read zip file at ">> \o t.log[n].p)
          /\ t.log[n].ev = "extract" =>
               \E m \in 1..(n - 1) : t.log[m].ev = "open" /\ t.log[m].i = t.log[n].i

\* reached: a resolution has tested a jar that is not there, gone on
\* without opening it, and opened and extracted from a later one
C27_Witness ==
  \E s \in Slots : \E k \in TasksOf(s) :
    LET t == calls[s].tasks[k]
    IN  /\ t.pc = "done" /\ t.src = "archive"
        /\ \E n \in 1..Len(t.log) : \E m \in 1..Len(t.log) :
             /\ t.log[n].ev = "access" /\ t.log[n].p \notin DOMAIN jars
             /\ t.log[n + 1].ev = "reject"
             /\ n < m
             /\ t.log[m].ev = "open" /\ t.log[m].p \in DOMAIN jars

\* the temp paths at which the files of the readable jars of Resolver r are
\* written: tmpRoot/moduleName/entryName
JarTargets(r) ==
  UNION { { PathJoin(<<TmpRoot, x[1], jars[JarOf(r, x[1], x[2])][n].entryName>>) :
              n \in DOMAIN jars[JarOf(r, x[1], x[2])] } :
          x \in { y \in {A, ATest} \X Profiles : JarOf(r, y[1], y[2]) \in DOMAIN jars } }

(***************************************************************************)
(* C28: the temp directory is made at most once, in the step of the first  *)
(* extraction; before that step no directory and no temp file exists;      *)
(* after it the directory stays the same, and every temp file and every    *)
(* cached path of every Resolver lies below it, at                         *)
(* tmpRoot/moduleName/entryName for an entry of a readable jar.            *)
(***************************************************************************)
C28_OneTempRoot ==
  [][ /\ mkdirCalls \in {0, 1}
      /\ mkdirCalls = 0 =>
           /\ tmpDir = <<>> /\ tmpFiles = <<>>
           /\ \A r \in Resolvers : DOMAIN filePathCache[r] = {}
      /\ mkdirCalls = 1 => tmpDir = TmpRoot /\ tmpFiles # <<>>
      /\ mkdirCalls' # mkdirCalls => mkdirCalls = 0 /\ tmpFiles' # tmpFiles
      /\ tmpDir # <<>> => tmpDir' = tmpDir
      /\ \A p \in DOMAIN tmpFiles : \E r \in Resolvers : p \in JarTargets(r)
      /\ \A r \in Resolvers : \A f \in DOMAIN filePathCache[r] :
           /\ StartsWith(filePathCache[r][f], TmpRoot \o <<SLASH>>)
           /\ \E p \in JarTargets(r) :
                normalized(p) = filePathCache[r][f]
    ]_vars

\* reached: both Resolvers have extracted and cached a temp path, and the
\* directory has been made once
C28_Witness ==
  /\ mkdirCalls = 1
  /\ \A r \in Resolvers : DOMAIN filePathCache[r] # {}
  /\ tmpDir = TmpRoot

(***************************************************************************)
(* C29: no step of a getFilePath or getRequireJsPaths call changes the     *)
(* registry or the install root of any Resolver: both stay what the        *)
(* construction of the Resolver made them, whether the calls deliver       *)
(* paths or errors; of the Resolver's state only the path cache changes.   *)
(***************************************************************************)
C29_RegistryAndHomeFixed ==
  [][ /\ reg' = reg
      /\ niagaraHome' = niagaraHome
      /\ made' = made
      /\ \A r \in Resolvers : reg[r] = made[r].reg
    ]_vars

\* reached: a Resolver that has looked up a module missing from its
\* registry, has cached a path taken from a jar, and whose latest call has
\* ended with an error
C29_Witness ==
  \E s \in Slots :
    /\ calls[s].op # "idle" /\ Complete(calls[s])
    /\ calls[s].out.kind = "error"
    /\ calls[s].tasks # <<>>
    /\ LogHas(calls[s].tasks[1], {"reg"})
    /\ ~LogHas(calls[s].tasks[1], {"probe"})
    /\ filePathCache[calls[s].r] # <<>>
    /\ reg[calls[s].r] = made[calls[s].r].reg

\* the call in slot s has begun
Begun(s) == calls[s].op # "idle"

\* every resolution of the call in slot s has ended: no step of it remains
Ended(s) == Begun(s) /\ Complete(calls[s])

\* the callback of the call in slot s has received a path (or the mapping of
\* paths) or an error
Delivered(s) ==
  /\ Begun(s)
  /\ \/ calls[s].out.kind \in {"path", "paths"}
     \/ IsRejection(calls[s].out)

\* in the log of every resolution, for every element of its list: the
\* registry is looked up at most once, every dev path is tested at most
\* once, and every jar is tested at most once per form of the path
WalksBounded ==
  \A s \in Slots : \A k \in TasksOf(s) :
    LET t == calls[s].tasks[k]
    IN  /\ t.idx <= Len(t.elems) + 1
        /\ \A i \in 1..Len(t.elems) :
             /\ Cardinality(EventsOf(t, i, {"reg"})) <= 1
             /\ \A n \in EventsOf(t, i, {"probe"}) :
                  Cardinality(ProbesOf(t, i, t.log[n].p)) = 1
             /\ \A n \in EventsOf(t, i, {"access"}) :
                  Cardinality({m \in EventsOf(t, i, {"access"}) : t.log[m].p = t.log[n].p})
                    <= Len(resolveModulePath(getModuleFileInfo(t.elems[i]).path))

\* where a resolution stands: element, form, profile; "done" is last
Stage(t) == IF t.pc = "done" THEN <<1, 0, 0, 0>>
            ELSE <<0, t.idx, IF t.pc = "dev" THEN 0 ELSE t.pass, IF t.pc = "dev" THEN 0 ELSE t.prof>>

Before(a, b) ==
  \E n \in 1..4 : a[n] < b[n] /\ \A m \in 1..(n - 1) : a[m] = b[m]

\* every step of a resolution moves it to a later stage: no step is retried
StepsAdvance ==
  [][ \A s \in Slots : \A k \in TasksOf(s) :
        (~Complete(calls[s]) /\ calls'[s].tasks[k] # calls[s].tasks[k]) =>
          Before(Stage(calls[s].tasks[k]), Stage(calls'[s].tasks[k])) ]_vars

(***************************************************************************)
(* C30: a call all of whose resolutions have ended, so that no step of it  *)
(* remains to be taken, has delivered a path or an error to its caller;    *)
(* on the way the profile walks have visited each of the five profiles at  *)
(* most once per form of the path and the list walk each element at most   *)
(* once.                                                                   *)
(***************************************************************************)
C30_EveryResolutionDelivers ==
  /\ WalksBounded
  /\ \A s \in Slots : Ended(s) => Delivered(s)

\* the identifier's relative path is a directory entry of some readable
\* profile jar of Resolver r, and of no jar a file
ArchivedDirectory(r, info) ==
  /\ info.kind = "info"
  /\ ProfilesWith(r, info.name, info.path) # {}
  /\ \A i \in ProfilesWith(r, info.name, info.path) :
       EntryOf(r, info.name, info.path, i).isDirectory

\* every file below the directory in every readable profile jar is there
\* below the temp path p
SubtreesExtracted(r, info, p) ==
  \A i \in ProfilesWith(r, info.name, info.path) :
    \A c \in ChildrenOf(r, info.name, info.path, i) :
      PathJoin(<<p, c.name>>) \in DOMAIN tmpFiles

(***************************************************************************)
(* C31: when a resolution of an archived directory identifier has          *)
(* delivered the directory's temp path, from the jars or from the cache,   *)
(* the files of the directory in every readable profile jar are there      *)
(* below that path, also while another resolution of the same identifier   *)
(* is in flight on the same Resolver.                                      *)
(***************************************************************************)
C31_DeliveredDirectoryComplete ==
  \A s \in Slots : \A k \in ParsedTasks(s) :
    LET t == calls[s].tasks[k]
        r == calls[s].r
    IN  (/\ t.pc = "done" /\ t.out.kind = "path"
         /\ t.src \in {"archive", "cache"}
         /\ ArchivedDirectory(r, t.info)) =>
          SubtreesExtracted(r, t.info, t.out.val)

(***************************************************************************)
(* C32: an entry of the path cache of a Resolver, once there, stays there  *)
(* with the same path through every later step of every resolution, also   *)
(* through the cache writes repeated for each profile while a directory is *)
(* merged and through resolutions in flight together; the jars do not      *)
(* change.                                                                 *)
(***************************************************************************)
C32_CacheEntriesStay ==
  [][ /\ jars' = jars
      /\ \A r \in Resolvers : \A f \in DOMAIN filePathCache[r] :
           /\ f \in DOMAIN filePathCache'[r]
           /\ filePathCache'[r][f] = filePathCache[r][f]
    ]_vars

\* reached: a directory was merged from two profile jars, its cache entry
\* written for each, beside the entry of a file resolved on the same
\* Resolver, while another resolution of that Resolver is in flight
C32_Witness ==
  \E s1, s2 \in Slots :
    /\ s1 # s2
    /\ calls[s1].op # "idle" /\ calls[s2].op # "idle"
    /\ calls[s1].r = calls[s2].r
    /\ ~Complete(calls[s2])
    /\ \E k \in ParsedTasks(s1) :
         LET t == calls[s1].tasks[k]
         IN  /\ t.pc = "done" /\ Len(t.merged) = 2
             /\ Cardinality(EventsOf(t, t.idx, {"extract"})) = 2
             /\ filePathCache[calls[s1].r][t.info.fullPath] = t.out.val
             /\ Cardinality(DOMAIN filePathCache[calls[s1].r]) >= 2

(***************************************************************************)
(* Dev directories that change: a source file becomes readable while the   *)
(* Resolvers are in use                                                    *)
(***************************************************************************)
\* the files that appear: rc/f.js of module a and its directory rc
DevLater == {Dev(DirD, A, RT, "src", RelJs), Dev(DirD, A, UX, "src", RelDir)}

\* fs.access of verifyFileIsReadable succeeds from now on for filePath
DevFileAppears(filePath) ==
  /\ filePath \notin devFiles
  /\ devFiles' = devFiles \cup {filePath}
  /\ UNCHANGED <<reg, niagaraHome, made, jars, filePathCache, tmpDir, mkdirCalls,
                 tmpFiles, calls, done, limit>>

InitDevLater ==
  /\ made = [r \in Resolvers |-> Make(Registered.how[r], Registered.home[r])]
  /\ reg = [r \in Resolvers |-> Make(Registered.how[r], Registered.home[r]).reg]
  /\ niagaraHome = Registered.home
  /\ devFiles = Dev0
  /\ jars = Jars1
  /\ limit = 1
  /\ filePathCache = [r \in Resolvers |-> <<>>]
  /\ tmpDir = <<>>
  /\ mkdirCalls = 0
  /\ tmpFiles = <<>>
  /\ calls = [s \in Slots |-> Idle]
  /\ done = {}

NextDevLater ==
  \/ Next
  \/ \E filePath \in DevLater : DevFileAppears(filePath)

SpecDevLater == InitDevLater /\ [][NextDevLater]_vars

(***************************************************************************)
(* C33: the path cache changes only in a step of the archive attempt; a    *)
(* resolution reads it only after its registry lookup and dev paths have   *)
(* failed; a resolution that ends with a dev path has left the cache as it *)
(* was; and a resolution whose dev attempt finds a readable dev file       *)
(* delivers that dev path also when the cache holds a path for the         *)
(* identifier.                                                             *)
(***************************************************************************)
C33_CacheOnlyAfterDevFailure ==
  [][ \A s \in Slots : \A k \in TasksOf(s) :
        LET t == calls[s].tasks[k]
            r == calls[s].r
            stepped == /\ ~Complete(calls[s])
                       /\ calls'[s].tasks[k] # t
            u == calls'[s].tasks[k]
        IN  /\ (filePathCache' # filePathCache) =>
                 \E s1 \in Slots : \E k1 \in TasksOf(s1) :
                   /\ calls[s1].tasks[k1].pc = "jar"
                   /\ calls'[s1].tasks[k1] # calls[s1].tasks[k1]
            /\ (stepped /\ t.pc = "dev") => filePathCache' = filePathCache
            /\ (stepped /\ u.pc = "done" /\ u.src = "dev") =>
                 /\ filePathCache' = filePathCache
                 /\ ~LogHas([log |-> SubSeq(u.log, Len(t.log) + 1, Len(u.log))],
                            ArchiveEvents)
            /\ (stepped /\ t.pc = "dev" /\ k \in ParsedTasks(s)
                  /\ DevHasSome(r, ElementOf(t))) =>
                 /\ u.pc = "done" /\ u.src = "dev"
                 /\ u.out.kind = "path" /\ u.out.val \in devFiles
            /\ (stepped /\ t.pc = "dev" /\ LogHas([log |-> SubSeq(u.log, Len(t.log) + 1, Len(u.log))], {"cache"})) =>
                 /\ k \in ParsedTasks(s)
                 /\ ~DevHasSome(r, ElementOf(t))
    ]_vars

\* reached: a resolution has delivered a dev path for an identifier whose
\* temp path, delivered earlier from a jar, is still in the cache
C33_Witness ==
  \E s \in Slots : \E k \in ParsedTasks(s) :
    LET t == calls[s].tasks[k]
        r == calls[s].r
    IN  /\ t.pc = "done" /\ t.src = "dev"
        /\ t.out.kind = "path" /\ t.out.val \in devFiles
        /\ t.info.fullPath \in DOMAIN filePathCache[r]
        /\ filePathCache[r][t.info.fullPath] \in DOMAIN tmpFiles
        /\ <<r, ElementOf(t), filePathCache[r][t.info.fullPath]>> \in done

\* element i of the list of resolution t is found neither in the dev
\* directories nor in any readable jar of Resolver r
NowhereFound(r, url) ==
  LET info == getModuleFileInfo(url)
  IN  /\ info.kind = "info"
      /\ ~DevHasSome(r, url)
      /\ \A f \in 1..Len(FormsOf(info.path)) :
           ProfilesWith(r, info.name, FormsOf(info.path)[f]) = {}

\* the elements of resolution t whose search is over and has failed
FailedElements(t) ==
  {i \in 1..Len(t.elems) : i < t.idx \/ (i = t.idx /\ t.pc = "done" /\ IsRejection(t.out))}

(***************************************************************************)
(* C34: the step that ends a resolution in failure leaves the path cache   *)
(* as it is, and a failed resolution has extracted nothing; after a        *)
(* not-found failure the cache of the Resolver has no entry for the        *)
(* identifier; and every search of such an identifier, also one that       *)
(* follows an earlier failed search of the same identifier, looks the      *)
(* registry up, reads the cache and tests the jar of every profile for     *)
(* every form of the path.                                                 *)
(***************************************************************************)
C34_FailureLeavesCache ==
  [][ \A s \in Slots : \A k \in TasksOf(s) :
        LET t == calls[s].tasks[k]
            r == calls[s].r
            u == calls'[s].tasks[k]
        IN  /\ (~Complete(calls[s]) /\ u # t /\ u.pc = "done" /\ IsRejection(u.out)) =>
                 filePathCache' = filePathCache
            /\ (t.pc = "done" /\ IsRejection(t.out)) => ~LogHas(t, {"extract"})
            /\ \A i \in FailedElements(t) :
                 (getModuleFileInfo(t.elems[i]).kind = "info" /\ NowhereFound(r, t.elems[i])) =>
                   LET info == getModuleFileInfo(t.elems[i])
                   IN  /\ info.fullPath \notin DOMAIN filePathCache[r]
                       /\ Cardinality(EventsOf(t, i, {"reg"})) = 1
                       /\ Cardinality(EventsOf(t, i, {"cache"})) = 1
                       /\ Cardinality(EventsOf(t, i, {"access"}))
                            = Len(RUNTIME_PROFILES) * Len(FormsOf(info.path))
    ]_vars

\* reached: a list that names the same identifier twice has failed; the
\* second search, made after the first had failed, tested every jar again
\* and the cache has no entry for the identifier
C34_Witness ==
  \E s \in Slots :
    /\ calls[s].op = "getFilePath" /\ calls[s].tasks # <<>>
    /\ LET t == calls[s].tasks[1]
           r == calls[s].r
       IN  /\ t.list /\ Len(t.elems) = 2 /\ t.elems[1] = t.elems[2]
           /\ t.pc = "done" /\ t.out.kind = "error"
           /\ NowhereFound(r, t.elems[1])
           /\ Cardinality(EventsOf(t, 2, {"access"})) = Cardinality(EventsOf(t, 1, {"access"}))
           /\ Cardinality(EventsOf(t, 2, {"access"})) > 0
           /\ getModuleFileInfo(t.elems[1]).fullPath \notin DOMAIN filePathCache[r]
           /\ filePathCache[r] # <<>>

\* every element of the argument of the getFilePath call in slot s is a
\* recognized, well-formed identifier
AllWellFormed(s) ==
  \A n \in 1..Len(calls[s].arg[1].elems) :
    getModuleFileInfo(calls[s].arg[1].elems[n]).kind = "info"

\* a callback that has been invoked is not invoked again: what a call has
\* handed to its callback stays while the call goes on
CallbackAtMostOnce ==
  [][ \A s \in Slots :
        (Begun(s) /\ ~Complete(calls[s]) /\ calls[s].out.kind # "pending") =>
          calls'[s].out = calls[s].out ]_vars

(***************************************************************************)
(* C35: a getFilePath call for a recognized, well-formed identifier or a   *)
(* list of such identifiers that has ended has invoked its callback once,  *)
(* with a path or with an error; a getRequireJsPaths call that has ended   *)
(* has invoked its callback once, with the mapping or with an error, also  *)
(* when several keys fail; a mapping is handed over only when no key has   *)
(* failed.                                                                 *)
(***************************************************************************)
C35_CallbackExactlyOnce ==
  \A s \in Slots :
    Ended(s) =>
      /\ (calls[s].op = "getFilePath" /\ AllWellFormed(s)) =>
           calls[s].out.kind \in {"path", "error"}
      /\ calls[s].op = "getRequireJsPaths" =>
           /\ calls[s].out.kind = "paths" \/ IsRejection(calls[s].out)
           /\ calls[s].out.kind = "paths" =>
                \A k \in TasksOf(s) : calls[s].tasks[k].out.kind = "path"

(***************************************************************************)
(* Two Resolvers of one process with different install roots               *)
(***************************************************************************)
HomeG == <<"G">>

JarAt(home, name, suffix) == home \o <<"/", "modules", "/">> \o name \o suffix \o <<".jar">>

\* neither Resolver has a registry; each has an install root of its own
TwoRoots ==
  [how |-> <<RawString(Parsed(Reg0)), File(Missing)>>, home |-> <<HomeH, HomeG>>]

\* module a is installed under both roots, with different bytes
JarsTwoRoots ==
  (JarAt(HomeH, A, UX) :> <<RcDir, RcFile("f", <<".js">>, "h-ux-f")>>)
  @@ (JarAt(HomeG, A, RT) :> <<RcDir, RcFile("f", <<".js">>, "g-rt-f"),
                               RcFile("r", <<".js">>, "g-rt-r")>>)

InitTwoRoots ==
  /\ made = [r \in Resolvers |-> Make(TwoRoots.how[r], TwoRoots.home[r])]
  /\ reg = [r \in Resolvers |-> Make(TwoRoots.how[r], TwoRoots.home[r]).reg]
  /\ niagaraHome = TwoRoots.home
  /\ devFiles = Dev0
  /\ jars = JarsTwoRoots
  /\ limit = 1
  /\ filePathCache = [r \in Resolvers |-> <<>>]
  /\ tmpDir = <<>>
  /\ mkdirCalls = 0
  /\ tmpFiles = <<>>
  /\ calls = [s \in Slots |-> Idle]
  /\ done = {}

SpecTwoRoots == InitTwoRoots /\ [][NextOverlap]_vars

\* the archive entry of Resolver r for a relative path: the entry under the
\* first form that any profile's jar holds, in the first such jar
HasArchiveEntry(r, info) ==
  \E f \in 1..Len(FormsOf(info.path)) : \E i \in Profiles :
    HasEntry(r, info.name, FormsOf(info.path)[f], i)

ArchiveEntry(r, info) ==
  LET forms == FormsOf(info.path)
      f == CHOOSE g \in 1..Len(forms) :
             /\ \E i \in Profiles : HasEntry(r, info.name, forms[g], i)
             /\ \A h \in 1..(g - 1) : \A i \in Profiles : ~HasEntry(r, info.name, forms[h], i)
      i == CHOOSE j \in Profiles :
             /\ HasEntry(r, info.name, forms[f], j)
             /\ \A m \in 1..(j - 1) : ~HasEntry(r, info.name, forms[f], m)
  IN  EntryOf(r, info.name, forms[f], i)

(***************************************************************************)
(* C36: once a Resolver has delivered a temp path for an identifier of a   *)
(* file in its archives, the bytes at that path are those of that          *)
(* Resolver's archive entry, and stay so through every later resolution    *)
(* in the process, also one by another Resolver with a different install   *)
(* root for the same module name and relative path.                        *)
(***************************************************************************)
C36_DeliveredBytesStay ==
  \A d \in done :
    LET r == d[1]
        info == getModuleFileInfo(d[2])
    IN  (HasArchiveEntry(r, info) /\ ~ArchiveEntry(r, info).isDirectory) =>
          /\ d[3] \in DOMAIN tmpFiles
          /\ tmpFiles[d[3]] = ArchiveEntry(r, info).data

\* the n-th jar tested for element el of t, in the order of the tests
AccessesOf(t, el) ==
  LET ns == EventsOf(t, el, {"access"})
      Rank(n) == Cardinality({m \in ns : m <= n})
  IN  [c \in 1..Cardinality(ns) |-> t.log[CHOOSE n \in ns : Rank(n) = c].p]

(***************************************************************************)
(* C37: in the archive attempt for a relative path ending in .js, the jars *)
(* of all five profiles are searched for the path without .js before any   *)
(* jar is searched for the path as requested; so when an entry (file or    *)
(* directory) for the path without .js is in the jar of any profile, the   *)
(* attempt delivers that entry's temp path, whatever profile's jar holds   *)
(* the path as requested, the first profile included.                      *)
(***************************************************************************)
C37_ArchiveStrippedFirst ==
  \A s \in Slots : \A k \in TasksOf(s) :
    LET t == calls[s].tasks[k]
        r == calls[s].r
        info == getModuleFileInfo(t.elems[t.idx])
    IN  (t.pc = "done" /\ t.src = "archive" /\ EndsWith(info.path, <<".js">>)) =>
          LET stripped == SubSeq(info.path, 1, Len(info.path) - 1)
              tested == AccessesOf(t, t.idx)
          IN  /\ (\E h \in Profiles : HasEntry(r, info.name, stripped, h)) =>
                   /\ t.hitForm = 1
                   /\ t.out = Fulfilled(normalized(PathJoin(<<TmpRoot, info.name, stripped>>)))
              /\ (\A h \in Profiles : ~HasEntry(r, info.name, stripped, h)) =>
                   /\ t.hitForm = 2
                   /\ Len(tested) = Len(ProfileOrder) + t.hitProf
                   /\ \A h \in Profiles : tested[h] = JarOf(r, info.name, h)
                   /\ \A h \in 1..t.hitProf :
                        tested[Len(ProfileOrder) + h] = JarOf(r, info.name, h)
                   /\ t.out = Fulfilled(PathJoin(<<TmpRoot, info.name, info.path>>))

\* reached: the entry without .js, in the jar of the last profile only, has
\* been delivered although the jar of the first profile holds the path as
\* requested
C37_Witness ==
  \E s \in Slots : \E k \in TasksOf(s) :
    LET t == calls[s].tasks[k]
        r == calls[s].r
    IN  /\ t.pc = "done" /\ t.src = "archive"
        /\ t.elems[t.idx] = UrlJs
        /\ HasEntry(r, A, RelJs, 1)
        /\ ~HasEntry(r, A, RelNoExt, 1)
        /\ HasEntry(r, A, RelNoExt, 5)
        /\ t.out = Fulfilled(PathJoin(<<TmpRoot, A, RelNoExt>>))
        /\ tmpFiles[t.out.val] = "np-noext"

(***************************************************************************)
(* C38: the archive attempt uses the module name exactly as parsed: every  *)
(* jar it tests for an identifier is                                       *)
(* installRoot/modules/<parsed name><profile suffix>.jar, a Test suffix of *)
(* the name kept, and what it delivers is the entry for the relative path  *)
(* as given (or without its .js) in such a jar, extracted to               *)
(* tmpRoot/<parsed name>/<entry name>, with no srcTest folder in either.   *)
(***************************************************************************)
C38_ArchiveNameAsParsed ==
  \A s \in Slots : \A k \in TasksOf(s) :
    LET t == calls[s].tasks[k]
        r == calls[s].r
    IN  /\ \A n \in 1..Len(t.log) :
             t.log[n].ev \in {"access", "open"} =>
               \E i \in Profiles :
                 t.log[n].p = niagaraHome[r] \o <<"/", "modules", "/">>
                                \o getModuleFileInfo(t.elems[t.log[n].i]).name
                                \o ProfileOrder[i] \o <<".jar">>
        /\ (t.pc = "done" /\ t.src = "archive") =>
             LET info == getModuleFileInfo(t.elems[t.idx])
                 forms == FormsOf(info.path)
             IN  \E f \in 1..Len(forms) : \E i \in Profiles :
                   /\ HasEntry(r, info.name, forms[f], i)
                   /\ t.out = Fulfilled(normalized(PathJoin(<<TmpRoot, info.name, forms[f]>>)))
                   /\ ~Contains(t.out.val, <<"srcTest">>)

\* reached: a ...Test identifier delivered from the jar named with the
\* suffix, although the jar of the name without it holds the same relative
\* path
C38_Witness ==
  \E s \in Slots : \E k \in TasksOf(s) :
    LET t == calls[s].tasks[k]
        r == calls[s].r
    IN  /\ t.pc = "done" /\ t.src = "archive"
        /\ t.elems[t.idx] = OrdTest
        /\ HasEntry(r, A, RelJs, 5)
        /\ HasEntry(r, ATest, RelJs, 1)
        /\ t.out = Fulfilled(PathJoin(<<TmpRoot, ATest, RelJs>>))
        /\ tmpFiles[t.out.val] = "test-f"
====
